---- MODULE Spec2Model ----
(***************************************************************************)
(* RepoRoverAI: the record access layer (Next.js route handlers over the   *)
(* drizzle/SQLite tables) and the progression bookkeeping driven by the    *)
(* lesson page.  Every handler is one action; the tables are sets of rows. *)
(* Strings that the handlers trim are sequences of atoms in which " " is   *)
(* the whitespace atom.  Server timestamps are readings of a logical clock. *)
(***************************************************************************)
EXTENDS Integers, Sequences, FiniteSets, TLC

\* ------------------------------------------------------------------ bounds
\* rows ever inserted over all tables in one behaviour (AUTOINCREMENT ids
\* are never reused, so this also bounds every id)
MaxRows == 2
\* lesson pages opened in one behaviour
MaxPages == 2
\* PUT /api/user-progress requests in flight at the same time
MaxPuts == 2
\* ticks of the server clock in one behaviour
MaxTicks == 1
\* POST /api/lessons and /api/quizzes requests in flight at the same time
MaxPosts == 1

\* ------------------------------------------------------------ identities
Users == {"u1", "u2"}
Anonymous == "anon"
Callers == Users \cup {Anonymous}
NULL == "null"
\* a request body that request.json() cannot parse
NotJson == [malformed |-> TRUE]

\* an optional value (undefined / null in the code): None or Some(v)
None == {}
Some(v) == {v}
The(m) == CHOOSE v \in m : TRUE
\* parseInt's NaN
NaN == None

\* lib/auth getCurrentUser(request): the session's user or null
getCurrentUser(caller) == IF caller \in Users THEN caller ELSE NULL

\* -------------------------------------------------------- JS primitives
Digits == <<"0", "1", "2", "3", "4", "5", "6", "7", "8", "9">>
IsDigit(c) == \E i \in 1..10 : Digits[i] = c
DigitVal(c) == (CHOOSE i \in 1..10 : Digits[i] = c) - 1

RECURSIVE DropLeadingSpace(_)
DropLeadingSpace(s) ==
  IF s # <<>> /\ Head(s) = " " THEN DropLeadingSpace(Tail(s)) ELSE s

RECURSIVE DropTrailingSpace(_)
DropTrailingSpace(s) ==
  IF s # <<>> /\ s[Len(s)] = " "
    THEN DropTrailingSpace(SubSeq(s, 1, Len(s) - 1)) ELSE s

\* String.prototype.trim
Trim(s) == DropTrailingSpace(DropLeadingSpace(s))

RECURSIVE DigitPrefix(_, _, _)
\* value of the longest run of digits at the front of s; NaN when there is none
DigitPrefix(s, acc, seen) ==
  IF s # <<>> /\ IsDigit(Head(s))
    THEN DigitPrefix(Tail(s), acc * 10 + DigitVal(Head(s)), TRUE)
    ELSE IF seen THEN Some(acc) ELSE NaN

\* parseInt(string): leading whitespace, an optional sign, then digits;
\* whatever follows the digits is ignored.  The result is NaN or Some(n).
ParseInt(s) ==
  LET t == DropLeadingSpace(s)
  IN  IF t # <<>> /\ Head(t) = "-"
        THEN LET v == DigitPrefix(Tail(t), 0, FALSE)
             IN  IF v = NaN THEN NaN ELSE Some(0 - The(v))
        ELSE IF t # <<>> /\ Head(t) = "+"
          THEN DigitPrefix(Tail(t), 0, FALSE)
          ELSE DigitPrefix(t, 0, FALSE)

\* a member of a JSON body that the handlers take as a number or a string
Num(n) == [num |-> n]
Str(s) == [str |-> s]
IsNum(v) == "num" \in DOMAIN v
\* `!v`
Falsy(v) == IF IsNum(v) THEN v.num = 0 ELSE v.str = <<>>
\* `parseInt(v)`: a number goes through String(v), which gives its digits back
ParseIntOf(v) == IF IsNum(v) THEN Some(v.num) ELSE ParseInt(v.str)

\* the guard `!id || isNaN(parseInt(id))` of every handler that takes ?id=
InvalidId(idParam) == idParam = <<>> \/ ParseInt(idParam) = NaN

\* the values of the id query parameter the requests are drawn from
IdParams ==
  { <<Digits[i + 1]>> : i \in 1..MaxRows } \cup
  { <<"1", "x">>, <<"x">>, <<>> }

\* ------------------------------------------------------------------ state
VARIABLES
  lessonProgress,    \* table lesson_progress
  quizAttempts,      \* table quiz_attempts
  repositories,      \* table repositories
  userAchievements,  \* table user_achievements
  userProgress,      \* table user_progress
  achievements,      \* table achievements
  learningPaths,     \* table learning_paths
  lessons,           \* table lessons
  quizzes,           \* table quizzes
  nextId,            \* AUTOINCREMENT counter of every table
  route,             \* the API route the requests of this behaviour go to
  clock,             \* the server clock (new Date())
  resp,              \* the last request served and its response
  pages,             \* the open lesson pages (LessonPage components)
  puts,              \* the PUT /api/user-progress handlers in flight
  analysis,          \* the last POST /api/github/analyze and its answer
  generation,        \* the last POST /api/ai/generate-quiz and its answer
  posts              \* the POST /api/lessons and /api/quizzes handlers in flight

vars == <<lessonProgress, quizAttempts, repositories, userAchievements,
          userProgress, achievements, learningPaths, lessons, quizzes, nextId,
          route, clock, resp, pages, puts, analysis, generation, posts>>

\* new Date().toISOString(): the reading of the clock
ClockStamps == <<"now", "now+1", "now+2", "now+3">>
Now == ClockStamps[clock + 1]

Tables == {"lesson_progress", "quiz_attempts", "repositories",
           "user_achievements", "user_progress", "achievements",
           "learning_paths", "lessons", "quizzes"}

\* the seeded rows: achievement 1, learning path 1, lessons 1 and 2, quiz 1
InitNextId ==
  [t \in Tables |-> CASE t \in {"achievements", "learning_paths", "quizzes"} -> 2
                      [] t = "lessons" -> 3
                      [] OTHER -> 1]

RECURSIVE SumOver(_, _)
SumOver(S, f) ==
  IF S = {} THEN 0
  ELSE LET x == CHOOSE y \in S : TRUE IN f[x] + SumOver(S \ {x}, f)

\* rows inserted so far, over all tables
Inserted == SumOver(Tables, [t \in Tables |-> nextId[t] - InitNextId[t]])
CanInsert == Inserted < MaxRows

\* NextResponse.json(body, {status}): rows is the record(s) of a success body,
\* code the `code` member of an error body (None when the body has none)
Reply(status, code, rows, tbl) ==
  [status |-> status, code |-> code, rows |-> rows, tbl |-> tbl]

\* a request without a body (GET, DELETE)
NoBody == [uid |-> None]

\* the limit, offset and userId query parameters of a request: each absent
\* (None) or Some(string)
NoPaging == [limit |-> None, offset |-> None, userId |-> None]

NoRequest ==
  [method |-> "none", caller |-> Anonymous, id |-> NaN, paging |-> NoPaging,
   json |-> TRUE, uid |-> FALSE, status |-> 0, code |-> None, rows |-> {}]

\* what is kept of a served request: the method, the caller, the parsed
\* ?id=, whether the body was JSON and whether it carried userId / user_id,
\* and the response
Served(method, caller, idParam, body, r) ==
  [method |-> method, caller |-> caller,
   id |-> IF idParam = <<>> THEN NaN ELSE ParseInt(idParam),
   paging |-> NoPaging,
   json |-> (body # NotJson),
   uid |-> (body # NotJson /\ body.uid # None),
   status |-> r.status, code |-> r.code, rows |-> r.rows]

\* the same for a GET, which may carry ?limit= and ?offset=
ServedGet(caller, idParam, paging, r) ==
  [Served("GET", caller, idParam, NoBody, r) EXCEPT !.paging = paging]

\* ---------------------------------------------------------- pagination
Min(a, b) == IF a < b THEN a ELSE b

\* `Math.min(parseInt(searchParams.get('limit') ?? '10'), 100)`
ListLimit(paging) ==
  LET n == ParseInt(IF paging.limit = None THEN <<"1", "0">>
                                           ELSE The(paging.limit))
  IN  IF n = NaN THEN NaN ELSE Some(Min(The(n), 100))

\* `parseInt(searchParams.get('offset') ?? '0')`
ListOffset(paging) ==
  ParseInt(IF paging.offset = None THEN <<"0">> ELSE The(paging.offset))

\* the rows of a result set, in the order of their ids, after the first
\* skip of them and up to take of them (all of them when take is None)
Slice(rows, skip, take) ==
  { r \in rows :
      LET before == Cardinality({x \in rows : x.id < r.id})
      IN  before >= skip /\ (take = None \/ before < skip + The(take)) }

\* `await query.limit(limit).offset(offset)` and the 200 answer.  The query
\* builder writes LIMIT for a number >= 0 only and OFFSET for a number other
\* than 0 only; SQLite reads a negative OFFSET as 0 and refuses an OFFSET
\* without LIMIT, which the handler's catch answers with 500.
ListReply(rows, paging, tbl) ==
  LET limit == ListLimit(paging)
      offset == ListOffset(paging)
      hasLimit == limit # NaN /\ The(limit) >= 0
      hasOffset == offset # NaN /\ The(offset) # 0
  IN  IF hasOffset /\ ~hasLimit THEN Reply(500, None, {}, tbl)
      ELSE Reply(200, None,
                 Slice(rows,
                       IF hasOffset /\ The(offset) > 0 THEN The(offset) ELSE 0,
                       IF hasLimit THEN limit ELSE None),
                 tbl)

\* Variant of HasUserIdField that looks for a member name no body carries.
HasUserIdFieldWrongKey(body) == FALSE

\* `'userId' in body || 'user_id' in body`
HasUserIdField(body) == body.uid # None

\* Variant of OwnRow whose WHERE clause lacks eq(table.userId, user.id).
OwnRowAnyUser(tbl, id, user) == {r \in tbl : r.id = id}

\* the WHERE clause and(eq(table.id, id), eq(table.userId, user.id))
OwnRow(tbl, id, user) == {r \in tbl : r.id = id /\ r.userId = user}

\* Variant of OwnRows: the list without its WHERE clause.
OwnRowsUnscoped(tbl, user) == tbl
\* the WHERE clause eq(table.userId, user.id) of a list
OwnRows(tbl, user) == {r \in tbl : r.userId = user}

\* Variant of ForeignKeyHolds: a store that does not look at the key.
ForeignKeyUnchecked(parents, id) == TRUE
\* FOREIGN KEY (...) REFERENCES parent(id): an insert or update whose key
\* names no parent row is refused by the store and the statement throws
ForeignKeyHolds(parents, id) == \E p \in parents : p.id = id

\* Variant of RowById: the lookup without its WHERE clause.
RowByIdUnfiltered(tbl, id) == tbl
\* the WHERE clause eq(table.id, id)
RowById(tbl, id) == {r \in tbl : r.id = id}

\* ------------------------------------------------- /api/lesson-progress
\* request bodies: uid is the userId / user_id member, the rest the members
\* the handlers destructure
LessonProgressBodies ==
  { [uid |-> None, lessonId |-> Some(1), status |-> Some(<<"completed">>),
     startedAt |-> None, completedAt |-> Some("t1")],
    [uid |-> None, lessonId |-> Some(1), status |-> Some(<<" ", "in_progress">>),
     startedAt |-> Some("t1"), completedAt |-> None],
    [uid |-> None, lessonId |-> None, status |-> None,
     startedAt |-> None, completedAt |-> None],
    NotJson } \cup
  { [uid |-> Some(u), lessonId |-> Some(1), status |-> Some(<<"completed">>),
     startedAt |-> None, completedAt |-> Some("t1")] : u \in Users }

\* the bodies that take each branch of the handlers once
LessonProgressPostLeanBodies ==
  { b \in LessonProgressBodies :
      b = NotJson \/ (b.uid \in {None, Some("u2")} /\ b.startedAt = None) }
LessonProgressPutLeanBodies ==
  { b \in LessonProgressBodies :
      b = NotJson \/ (b.uid = None /\ b.completedAt = None)
                  \/ b.uid = Some("u2") }

LessonProgressGET(caller, idParam, paging) ==
  LET user == getCurrentUser(caller) IN
  IF user = NULL THEN Reply(401, Some("AUTH_REQUIRED"), {}, lessonProgress)
  ELSE IF idParam # <<>> THEN
    IF InvalidId(idParam)
      THEN Reply(400, Some("INVALID_ID"), {}, lessonProgress)
    ELSE LET record == OwnRow(lessonProgress, The(ParseInt(idParam)), user) IN
      IF record = {} THEN Reply(404, Some("NOT_FOUND"), {}, lessonProgress)
      ELSE Reply(200, None, record, lessonProgress)
  ELSE ListReply(OwnRows(lessonProgress, user), paging, lessonProgress)

LessonProgressPOST(caller, body) ==
  LET user == getCurrentUser(caller) IN
  IF user = NULL THEN Reply(401, Some("AUTH_REQUIRED"), {}, lessonProgress)
  ELSE IF body = NotJson THEN Reply(500, None, {}, lessonProgress)
  ELSE IF HasUserIdField(body)
    THEN Reply(400, Some("USER_ID_NOT_ALLOWED"), {}, lessonProgress)
  ELSE IF body.lessonId = None \/ The(body.lessonId) = 0
    THEN Reply(400, Some("MISSING_LESSON_ID"), {}, lessonProgress)
  ELSE IF body.status = None \/ The(body.status) = <<>>
    THEN Reply(400, Some("MISSING_STATUS"), {}, lessonProgress)
  ELSE IF ~ForeignKeyHolds(lessons, The(body.lessonId))
    THEN Reply(500, None, {}, lessonProgress)
  ELSE
    LET newRecord == [id |-> nextId["lesson_progress"], userId |-> user,
                      lessonId |-> The(body.lessonId),
                      status |-> Trim(The(body.status)),
                      startedAt |-> body.startedAt,
                      completedAt |-> body.completedAt,
                      createdAt |-> Now, updatedAt |-> Now]
    IN  Reply(201, None, {newRecord}, lessonProgress \cup {newRecord})

LessonProgressPUT(caller, idParam, body) ==
  LET user == getCurrentUser(caller) IN
  IF user = NULL THEN Reply(401, Some("AUTH_REQUIRED"), {}, lessonProgress)
  ELSE IF InvalidId(idParam)
    THEN Reply(400, Some("INVALID_ID"), {}, lessonProgress)
  ELSE IF body = NotJson THEN Reply(500, None, {}, lessonProgress)
  ELSE IF HasUserIdField(body)
    THEN Reply(400, Some("USER_ID_NOT_ALLOWED"), {}, lessonProgress)
  ELSE LET existing == OwnRow(lessonProgress, The(ParseInt(idParam)), user) IN
    IF existing = {} THEN Reply(404, Some("NOT_FOUND"), {}, lessonProgress)
    ELSE
      LET old == The(existing)
          updated ==
            [old EXCEPT
               !.status = IF body.status # None
                            THEN Trim(The(body.status)) ELSE @,
               !.startedAt = IF body.startedAt # None THEN body.startedAt ELSE @,
               !.completedAt = IF body.completedAt # None
                                 THEN body.completedAt ELSE @,
               !.updatedAt = Now]
      IN  Reply(200, None, {updated},
                (lessonProgress \ existing) \cup {updated})

LessonProgressDELETE(caller, idParam) ==
  LET user == getCurrentUser(caller) IN
  IF user = NULL THEN Reply(401, Some("AUTH_REQUIRED"), {}, lessonProgress)
  ELSE IF InvalidId(idParam)
    THEN Reply(400, Some("INVALID_ID"), {}, lessonProgress)
  ELSE LET existing == OwnRow(lessonProgress, The(ParseInt(idParam)), user) IN
    IF existing = {} THEN Reply(404, Some("NOT_FOUND"), {}, lessonProgress)
    ELSE Reply(200, None, existing, lessonProgress \ existing)

\* --------------------------------------------------- /api/user-progress
UserProgressBodies ==
  { [uid |-> None, totalXp |-> None, level |-> None,
     streakDays |-> None, lastActiveDate |-> None],
    [uid |-> None, totalXp |-> Some(50), level |-> None,
     streakDays |-> None, lastActiveDate |-> None],
    [uid |-> None, totalXp |-> Some(150), level |-> None,
     streakDays |-> Some(3), lastActiveDate |-> Some("d1")],
    [uid |-> None, totalXp |-> None, level |-> Some(5),
     streakDays |-> None, lastActiveDate |-> None],
    NotJson } \cup
  { [uid |-> Some(u), totalXp |-> Some(50), level |-> None,
     streakDays |-> None, lastActiveDate |-> None] : u \in Users }

UserProgressPostLeanBodies ==
  { b \in UserProgressBodies :
      b = NotJson \/ (b.uid \in {None, Some("u2")} /\ b.totalXp = Some(50)) }
UserProgressPutLeanBodies ==
  { b \in UserProgressBodies :
      b = NotJson \/ (b.uid = None /\ b.level = None /\ b.totalXp # Some(50))
                  \/ b.uid = Some("u2") }

UserProgressGET(caller, idParam, paging) ==
  LET user == getCurrentUser(caller) IN
  IF user = NULL THEN Reply(401, None, {}, userProgress)
  ELSE IF idParam # <<>> THEN
    IF InvalidId(idParam) THEN Reply(400, Some("INVALID_ID"), {}, userProgress)
    ELSE LET record == OwnRow(userProgress, The(ParseInt(idParam)), user) IN
      IF record = {} THEN Reply(404, Some("NOT_FOUND"), {}, userProgress)
      ELSE Reply(200, None, record, userProgress)
  ELSE IF paging.userId # None /\ The(paging.userId) # user
    THEN Reply(403, Some("UNAUTHORIZED_ACCESS"), {}, userProgress)
  ELSE ListReply(OwnRows(userProgress, user), paging, userProgress)

\* Variant of UserProgressPOST: the owner is taken from the body when the
\* body names one.
UserProgressPOSTOwnerFromBody(caller, body) ==
  LET user == getCurrentUser(caller) IN
  IF user = NULL THEN Reply(401, None, {}, userProgress)
  ELSE IF body = NotJson THEN Reply(500, None, {}, userProgress)
  ELSE
    LET insertData ==
          [id |-> nextId["user_progress"],
           userId |-> IF body.uid # None THEN The(body.uid) ELSE user,
           totalXp |-> IF body.totalXp # None THEN The(body.totalXp) ELSE 0,
           level |-> IF body.level # None THEN The(body.level) ELSE 1,
           streakDays |-> IF body.streakDays # None
                            THEN The(body.streakDays) ELSE 0,
           lastActiveDate |-> body.lastActiveDate,
           createdAt |-> Now, updatedAt |-> Now]
    IN  Reply(201, None, {insertData}, userProgress \cup {insertData})
UserProgressPOST(caller, body) ==
  LET user == getCurrentUser(caller) IN
  IF user = NULL THEN Reply(401, None, {}, userProgress)
  ELSE IF body = NotJson THEN Reply(500, None, {}, userProgress)
  ELSE IF HasUserIdField(body)
    THEN Reply(400, Some("USER_ID_NOT_ALLOWED"), {}, userProgress)
  ELSE
    LET insertData ==
          [id |-> nextId["user_progress"], userId |-> user,
           totalXp |-> IF body.totalXp # None THEN The(body.totalXp) ELSE 0,
           level |-> IF body.level # None THEN The(body.level) ELSE 1,
           streakDays |-> IF body.streakDays # None
                            THEN The(body.streakDays) ELSE 0,
           lastActiveDate |-> body.lastActiveDate,
           createdAt |-> Now, updatedAt |-> Now]
    IN  Reply(201, None, {insertData}, userProgress \cup {insertData})

UserProgressPUT(caller, idParam, body) ==
  LET user == getCurrentUser(caller) IN
  IF user = NULL THEN Reply(401, None, {}, userProgress)
  ELSE IF InvalidId(idParam)
    THEN Reply(400, Some("INVALID_ID"), {}, userProgress)
  ELSE IF body = NotJson THEN Reply(500, None, {}, userProgress)
  ELSE IF HasUserIdField(body)
    THEN Reply(400, Some("USER_ID_NOT_ALLOWED"), {}, userProgress)
  ELSE LET existing == OwnRow(userProgress, The(ParseInt(idParam)), user) IN
    IF existing = {} THEN Reply(404, Some("NOT_FOUND"), {}, userProgress)
    ELSE
      LET old == The(existing)
          updated ==
            [old EXCEPT
               !.totalXp = IF body.totalXp # None THEN The(body.totalXp) ELSE @,
               !.level = IF body.level # None THEN The(body.level) ELSE @,
               !.streakDays = IF body.streakDays # None
                                THEN The(body.streakDays) ELSE @,
               !.lastActiveDate = IF body.lastActiveDate # None
                                    THEN body.lastActiveDate ELSE @,
               !.updatedAt = Now]
      IN  Reply(200, None, {updated}, (userProgress \ existing) \cup {updated})

UserProgressDELETE(caller, idParam) ==
  LET user == getCurrentUser(caller) IN
  IF user = NULL THEN Reply(401, None, {}, userProgress)
  ELSE IF InvalidId(idParam)
    THEN Reply(400, Some("INVALID_ID"), {}, userProgress)
  ELSE LET existing == OwnRow(userProgress, The(ParseInt(idParam)), user) IN
    IF existing = {} THEN Reply(404, Some("NOT_FOUND"), {}, userProgress)
    ELSE Reply(200, None, existing, userProgress \ existing)

\* --------------------------------------------------- /api/quiz-attempts
QuizAttemptPostBodies ==
  { [uid |-> None, quizId |-> Some(1), userAnswer |-> Some(<<"A">>),
     isCorrect |-> Some(TRUE), attemptedAt |-> None],
    [uid |-> None, quizId |-> Some(1), userAnswer |-> Some(<<"B", " ">>),
     isCorrect |-> Some(FALSE), attemptedAt |-> None],
    [uid |-> None, quizId |-> Some(1), userAnswer |-> Some(<<"B">>),
     isCorrect |-> Some(TRUE), attemptedAt |-> None],
    [uid |-> None, quizId |-> Some(1), userAnswer |-> Some(<<"A">>),
     isCorrect |-> None, attemptedAt |-> None],
    [uid |-> None, quizId |-> None, userAnswer |-> None,
     isCorrect |-> None, attemptedAt |-> None],
    NotJson } \cup
  { [uid |-> Some(u), quizId |-> Some(1), userAnswer |-> Some(<<"A">>),
     isCorrect |-> Some(TRUE), attemptedAt |-> None] : u \in Users }

QuizAttemptPutBodies ==
  { [uid |-> None, quizId |-> None, userAnswer |-> Some(<<" ", "B">>),
     isCorrect |-> None, attemptedAt |-> None],
    [uid |-> None, quizId |-> None, userAnswer |-> None,
     isCorrect |-> Some(TRUE), attemptedAt |-> None],
    [uid |-> None, quizId |-> None, userAnswer |-> None,
     isCorrect |-> None, attemptedAt |-> Some("t1")],
    [uid |-> None, quizId |-> None, userAnswer |-> None,
     isCorrect |-> None, attemptedAt |-> None],
    NotJson } \cup
  { [uid |-> Some(u), quizId |-> None, userAnswer |-> None,
     isCorrect |-> Some(TRUE), attemptedAt |-> None] : u \in Users }

QuizAttemptPostLeanBodies ==
  { b \in QuizAttemptPostBodies :
      b = NotJson \/ (b.uid \in {None, Some("u2")}
                       /\ b.userAnswer \in {None, Some(<<"A">>)}
                       /\ (b.isCorrect # None \/ b.quizId = None)) }
QuizAttemptPutLeanBodies ==
  { b \in QuizAttemptPutBodies :
      b = NotJson \/ (b.uid = None /\ b.isCorrect = None
                       /\ b.attemptedAt = None)
                  \/ b.uid = Some("u2") }

QuizAttemptsGET(caller, idParam, paging) ==
  LET user == getCurrentUser(caller) IN
  IF user = NULL THEN Reply(401, None, {}, quizAttempts)
  ELSE IF idParam # <<>> THEN
    IF InvalidId(idParam) THEN Reply(400, Some("INVALID_ID"), {}, quizAttempts)
    ELSE LET attempt == OwnRow(quizAttempts, The(ParseInt(idParam)), user) IN
      IF attempt = {} THEN Reply(404, Some("NOT_FOUND"), {}, quizAttempts)
      ELSE Reply(200, None, attempt, quizAttempts)
  ELSE IF paging.userId # None /\ The(paging.userId) # user
    THEN Reply(403, Some("UNAUTHORIZED_ACCESS"), {}, quizAttempts)
  ELSE ListReply(OwnRows(quizAttempts, user), paging, quizAttempts)

QuizAttemptsPOST(caller, body) ==
  LET user == getCurrentUser(caller) IN
  IF user = NULL THEN Reply(401, None, {}, quizAttempts)
  ELSE IF body = NotJson THEN Reply(500, None, {}, quizAttempts)
  ELSE IF HasUserIdField(body)
    THEN Reply(400, Some("USER_ID_NOT_ALLOWED"), {}, quizAttempts)
  ELSE IF body.quizId = None \/ The(body.quizId) = 0
    THEN Reply(400, Some("MISSING_QUIZ_ID"), {}, quizAttempts)
  ELSE IF body.userAnswer = None \/ The(body.userAnswer) = <<>>
    THEN Reply(400, Some("MISSING_USER_ANSWER"), {}, quizAttempts)
  ELSE IF body.isCorrect = None
    THEN Reply(400, Some("INVALID_IS_CORRECT"), {}, quizAttempts)
  ELSE IF ~ForeignKeyHolds(quizzes, The(body.quizId))
    THEN Reply(500, None, {}, quizAttempts)
  ELSE
    LET newAttempt == [id |-> nextId["quiz_attempts"], userId |-> user,
                       quizId |-> The(body.quizId),
                       userAnswer |-> Trim(The(body.userAnswer)),
                       isCorrect |-> The(body.isCorrect),
                       attemptedAt |-> Now, createdAt |-> Now]
    IN  Reply(201, None, {newAttempt}, quizAttempts \cup {newAttempt})

QuizAttemptsPUT(caller, idParam, body) ==
  LET user == getCurrentUser(caller) IN
  IF user = NULL THEN Reply(401, None, {}, quizAttempts)
  ELSE IF InvalidId(idParam)
    THEN Reply(400, Some("INVALID_ID"), {}, quizAttempts)
  ELSE IF body = NotJson THEN Reply(500, None, {}, quizAttempts)
  ELSE IF HasUserIdField(body)
    THEN Reply(400, Some("USER_ID_NOT_ALLOWED"), {}, quizAttempts)
  ELSE LET existing == OwnRow(quizAttempts, The(ParseInt(idParam)), user) IN
    IF existing = {} THEN Reply(404, Some("NOT_FOUND"), {}, quizAttempts)
    ELSE IF body.userAnswer = None /\ body.isCorrect = None
            /\ body.attemptedAt = None
      THEN Reply(400, Some("NO_UPDATES"), {}, quizAttempts)
    ELSE
      LET old == The(existing)
          updated ==
            [old EXCEPT
               !.userAnswer = IF body.userAnswer # None
                                THEN Trim(The(body.userAnswer)) ELSE @,
               !.isCorrect = IF body.isCorrect # None
                               THEN The(body.isCorrect) ELSE @,
               !.attemptedAt = IF body.attemptedAt # None
                                 THEN The(body.attemptedAt) ELSE @]
      IN  Reply(200, None, {updated}, (quizAttempts \ existing) \cup {updated})

QuizAttemptsDELETE(caller, idParam) ==
  LET user == getCurrentUser(caller) IN
  IF user = NULL THEN Reply(401, None, {}, quizAttempts)
  ELSE IF InvalidId(idParam)
    THEN Reply(400, Some("INVALID_ID"), {}, quizAttempts)
  ELSE LET existing == OwnRow(quizAttempts, The(ParseInt(idParam)), user) IN
    IF existing = {} THEN Reply(404, Some("NOT_FOUND"), {}, quizAttempts)
    ELSE Reply(200, None, existing, quizAttempts \ existing)

\* ---------------------------------------------------- /api/repositories
RepositoryBodies ==
  { [uid |-> None, githubUrl |-> Some(<<"https://github.com/o/r", " ">>),
     repoName |-> Some(<<"r">>), description |-> None, language |-> Some(<<"ts">>),
     stars |-> Some(7), analyzedAt |-> None, analysisData |-> None],
    [uid |-> None, githubUrl |-> None, repoName |-> Some(<<" ", "r2">>),
     description |-> Some(<<"d">>), language |-> None,
     stars |-> None, analyzedAt |-> Some("t1"), analysisData |-> Some("blob")],
    [uid |-> None, githubUrl |-> None, repoName |-> None, description |-> None,
     language |-> None, stars |-> None, analyzedAt |-> None,
     analysisData |-> None],
    NotJson } \cup
  { [uid |-> Some(u), githubUrl |-> Some(<<"https://github.com/o/r">>),
     repoName |-> Some(<<"r">>), description |-> None, language |-> None,
     stars |-> None, analyzedAt |-> None, analysisData |-> None] : u \in Users }

RepositoryPostLeanBodies ==
  { b \in RepositoryBodies :
      b = NotJson \/ (b.uid \in {None, Some("u2")} /\ b.description = None) }
RepositoryPutLeanBodies ==
  { b \in RepositoryBodies :
      b = NotJson \/ (b.uid = None /\ b.githubUrl = None)
                  \/ b.uid = Some("u2") }

\* `x ? x.trim() : null` for an optional string member
TrimOrNull(m) == IF m = None \/ The(m) = <<>> THEN None ELSE Some(Trim(The(m)))

RepositoriesGET(caller, idParam, paging) ==
  LET user == getCurrentUser(caller) IN
  IF user = NULL THEN Reply(401, None, {}, repositories)
  ELSE IF idParam # <<>> THEN
    IF InvalidId(idParam) THEN Reply(400, Some("INVALID_ID"), {}, repositories)
    ELSE LET record == OwnRow(repositories, The(ParseInt(idParam)), user) IN
      IF record = {}
        THEN Reply(404, Some("REPOSITORY_NOT_FOUND"), {}, repositories)
      ELSE Reply(200, None, record, repositories)
  ELSE ListReply(OwnRows(repositories, user), paging, repositories)

RepositoriesPOST(caller, body) ==
  LET user == getCurrentUser(caller) IN
  IF user = NULL THEN Reply(401, None, {}, repositories)
  ELSE IF body = NotJson THEN Reply(500, None, {}, repositories)
  ELSE IF HasUserIdField(body)
    THEN Reply(400, Some("USER_ID_NOT_ALLOWED"), {}, repositories)
  ELSE IF body.githubUrl = None \/ Trim(The(body.githubUrl)) = <<>>
    THEN Reply(400, Some("MISSING_GITHUB_URL"), {}, repositories)
  ELSE IF body.repoName = None \/ Trim(The(body.repoName)) = <<>>
    THEN Reply(400, Some("MISSING_REPO_NAME"), {}, repositories)
  ELSE
    LET insertData ==
          [id |-> nextId["repositories"], userId |-> user,
           githubUrl |-> Trim(The(body.githubUrl)),
           repoName |-> Trim(The(body.repoName)),
           description |-> TrimOrNull(body.description),
           language |-> TrimOrNull(body.language),
           stars |-> IF body.stars # None THEN The(body.stars) ELSE 0,
           analyzedAt |-> body.analyzedAt,
           analysisData |-> body.analysisData,
           createdAt |-> Now]
    IN  Reply(201, None, {insertData}, repositories \cup {insertData})

RepositoriesPUT(caller, idParam, body) ==
  LET user == getCurrentUser(caller) IN
  IF user = NULL THEN Reply(401, None, {}, repositories)
  ELSE IF InvalidId(idParam)
    THEN Reply(400, Some("INVALID_ID"), {}, repositories)
  ELSE IF body = NotJson THEN Reply(500, None, {}, repositories)
  ELSE IF HasUserIdField(body)
    THEN Reply(400, Some("USER_ID_NOT_ALLOWED"), {}, repositories)
  ELSE LET existing == OwnRow(repositories, The(ParseInt(idParam)), user) IN
    IF existing = {}
      THEN Reply(404, Some("REPOSITORY_NOT_FOUND"), {}, repositories)
    \* db.update().set({}) throws "No values to set"; the catch answers 500
    ELSE IF \A f \in DOMAIN body \ {"uid"} : body[f] = None
      THEN Reply(500, None, {}, repositories)
    ELSE
      LET old == The(existing)
          updated ==
            [old EXCEPT
               !.githubUrl = IF body.githubUrl # None
                               THEN Trim(The(body.githubUrl)) ELSE @,
               !.repoName = IF body.repoName # None
                              THEN Trim(The(body.repoName)) ELSE @,
               !.description = IF body.description # None
                                 THEN TrimOrNull(body.description) ELSE @,
               !.language = IF body.language # None
                              THEN TrimOrNull(body.language) ELSE @,
               !.stars = IF body.stars # None THEN The(body.stars) ELSE @,
               !.analyzedAt = IF body.analyzedAt # None
                                THEN body.analyzedAt ELSE @,
               !.analysisData = IF body.analysisData # None
                                  THEN body.analysisData ELSE @]
      IN  Reply(200, None, {updated}, (repositories \ existing) \cup {updated})

RepositoriesDELETE(caller, idParam) ==
  LET user == getCurrentUser(caller) IN
  IF user = NULL THEN Reply(401, None, {}, repositories)
  ELSE IF InvalidId(idParam)
    THEN Reply(400, Some("INVALID_ID"), {}, repositories)
  ELSE LET existing == OwnRow(repositories, The(ParseInt(idParam)), user) IN
    IF existing = {}
      THEN Reply(404, Some("REPOSITORY_NOT_FOUND"), {}, repositories)
    ELSE Reply(200, None, existing, repositories \ existing)

\* ------------------------------------------------ /api/user-achievements
UserAchievementPostBodies ==
  { [uid |-> None, achievementId |-> Some(1), earnedAt |-> None],
    [uid |-> None, achievementId |-> Some(9), earnedAt |-> None],
    [uid |-> None, achievementId |-> None, earnedAt |-> None],
    NotJson } \cup
  { [uid |-> Some(u), achievementId |-> Some(1), earnedAt |-> None]
      : u \in Users }

UserAchievementPutBodies ==
  { [uid |-> None, achievementId |-> None, earnedAt |-> Some("t1")],
    [uid |-> None, achievementId |-> None, earnedAt |-> None],
    NotJson } \cup
  { [uid |-> Some(u), achievementId |-> None, earnedAt |-> Some("t1")]
      : u \in Users }

UserAchievementPostLeanBodies ==
  { b \in UserAchievementPostBodies :
      b = NotJson \/ b.uid \in {None, Some("u2")} }
UserAchievementPutLeanBodies ==
  { b \in UserAchievementPutBodies :
      b = NotJson \/ b.uid \in {None, Some("u2")} }

UserAchievementsGET(caller, idParam, paging) ==
  LET currentUser == getCurrentUser(caller) IN
  IF currentUser = NULL THEN Reply(401, None, {}, userAchievements)
  ELSE IF idParam # <<>> THEN
    IF ParseInt(idParam) = NaN
      THEN Reply(400, Some("INVALID_ID"), {}, userAchievements)
    ELSE LET record ==
               OwnRow(userAchievements, The(ParseInt(idParam)), currentUser) IN
      IF record = {} THEN Reply(404, Some("NOT_FOUND"), {}, userAchievements)
      ELSE Reply(200, None, record, userAchievements)
  ELSE ListReply({r \in OwnRows(userAchievements, currentUser) :
                    paging.userId # None => r.userId = The(paging.userId)},
                 paging, userAchievements)

UserAchievementsPOST(caller, body) ==
  LET currentUser == getCurrentUser(caller) IN
  IF currentUser = NULL THEN Reply(401, None, {}, userAchievements)
  ELSE IF body = NotJson THEN Reply(500, None, {}, userAchievements)
  ELSE IF HasUserIdField(body)
    THEN Reply(400, Some("USER_ID_NOT_ALLOWED"), {}, userAchievements)
  ELSE IF body.achievementId = None \/ The(body.achievementId) = 0
    THEN Reply(400, Some("MISSING_ACHIEVEMENT_ID"), {}, userAchievements)
  ELSE IF {a \in achievements : a.id = The(body.achievementId)} = {}
    THEN Reply(404, Some("ACHIEVEMENT_NOT_FOUND"), {}, userAchievements)
  ELSE
    LET newRecord == [id |-> nextId["user_achievements"],
                      userId |-> currentUser,
                      achievementId |-> The(body.achievementId),
                      earnedAt |-> Now, createdAt |-> Now]
    IN  Reply(201, None, {newRecord}, userAchievements \cup {newRecord})

\* Variant of UserAchievementsPUT: an update that also stamps createdAt.
UserAchievementsPUTStamping(caller, idParam, body) ==
  LET currentUser == getCurrentUser(caller) IN
  IF currentUser = NULL THEN Reply(401, None, {}, userAchievements)
  ELSE IF InvalidId(idParam)
    THEN Reply(400, Some("INVALID_ID"), {}, userAchievements)
  ELSE IF body = NotJson THEN Reply(500, None, {}, userAchievements)
  ELSE IF HasUserIdField(body)
    THEN Reply(400, Some("USER_ID_NOT_ALLOWED"), {}, userAchievements)
  ELSE LET existing ==
             OwnRow(userAchievements, The(ParseInt(idParam)), currentUser) IN
    IF existing = {} THEN Reply(404, Some("NOT_FOUND"), {}, userAchievements)
    ELSE IF body.earnedAt = None THEN Reply(500, None, {}, userAchievements)
    ELSE
      LET old == The(existing)
          updated == [old EXCEPT !.earnedAt = IF body.earnedAt # None
                                                THEN The(body.earnedAt) ELSE @,
                                 !.createdAt = Now]
      IN  Reply(200, None, {updated},
                (userAchievements \ existing) \cup {updated})

UserAchievementsPUT(caller, idParam, body) ==
  LET currentUser == getCurrentUser(caller) IN
  IF currentUser = NULL THEN Reply(401, None, {}, userAchievements)
  ELSE IF InvalidId(idParam)
    THEN Reply(400, Some("INVALID_ID"), {}, userAchievements)
  ELSE IF body = NotJson THEN Reply(500, None, {}, userAchievements)
  ELSE IF HasUserIdField(body)
    THEN Reply(400, Some("USER_ID_NOT_ALLOWED"), {}, userAchievements)
  ELSE LET existing ==
             OwnRow(userAchievements, The(ParseInt(idParam)), currentUser) IN
    IF existing = {} THEN Reply(404, Some("NOT_FOUND"), {}, userAchievements)
    \* db.update().set({}) throws "No values to set"; the catch answers 500
    ELSE IF body.earnedAt = None THEN Reply(500, None, {}, userAchievements)
    ELSE
      LET old == The(existing)
          updated == [old EXCEPT !.earnedAt = IF body.earnedAt # None
                                                THEN The(body.earnedAt) ELSE @]
      IN  Reply(200, None, {updated},
                (userAchievements \ existing) \cup {updated})

UserAchievementsDELETE(caller, idParam) ==
  LET currentUser == getCurrentUser(caller) IN
  IF currentUser = NULL THEN Reply(401, None, {}, userAchievements)
  ELSE IF InvalidId(idParam)
    THEN Reply(400, Some("INVALID_ID"), {}, userAchievements)
  ELSE LET existing ==
             OwnRow(userAchievements, The(ParseInt(idParam)), currentUser) IN
    IF existing = {} THEN Reply(404, Some("NOT_FOUND"), {}, userAchievements)
    ELSE Reply(200, None, existing, userAchievements \ existing)

\* ---------------------------------------------------- /api/achievements
\* (the handlers of this route never call getCurrentUser)
AchievementBodies ==
  { [title |-> Some(<<"Quick", " ">>), description |-> None, icon |-> None,
     xpReward |-> Some(100), requirementType |-> Some(<<"total_xp">>),
     requirementValue |-> Some(100), uid |-> None],
    [title |-> None, description |-> None, icon |-> None,
     xpReward |-> None, requirementType |-> None,
     requirementValue |-> None, uid |-> None],
    NotJson }

AchievementsGET(caller, idParam, paging) ==
  IF idParam # <<>> THEN
    IF InvalidId(idParam) THEN Reply(400, Some("INVALID_ID"), {}, achievements)
    ELSE LET achievement ==
               {a \in achievements : a.id = The(ParseInt(idParam))} IN
      IF achievement = {} THEN Reply(404, Some("NOT_FOUND"), {}, achievements)
      ELSE Reply(200, None, achievement, achievements)
  ELSE ListReply(achievements, paging, achievements)

AchievementsPOST(caller, body) ==
  IF body = NotJson THEN Reply(500, None, {}, achievements)
  ELSE IF body.title = None \/ Trim(The(body.title)) = <<>>
    THEN Reply(400, Some("MISSING_TITLE"), {}, achievements)
  ELSE IF body.xpReward = None
    THEN Reply(400, Some("MISSING_XP_REWARD"), {}, achievements)
  ELSE IF body.requirementType = None \/ Trim(The(body.requirementType)) = <<>>
    THEN Reply(400, Some("MISSING_REQUIREMENT_TYPE"), {}, achievements)
  ELSE IF body.requirementValue = None
    THEN Reply(400, Some("MISSING_REQUIREMENT_VALUE"), {}, achievements)
  ELSE
    LET insertData ==
          [id |-> nextId["achievements"],
           title |-> Trim(The(body.title)),
           description |-> TrimOrNull(body.description),
           icon |-> TrimOrNull(body.icon),
           xpReward |-> The(body.xpReward),
           requirementType |-> Trim(The(body.requirementType)),
           requirementValue |-> The(body.requirementValue),
           createdAt |-> Now]
    IN  Reply(201, None, {insertData}, achievements \cup {insertData})

AchievementsPUT(caller, idParam, body) ==
  IF InvalidId(idParam) THEN Reply(400, Some("INVALID_ID"), {}, achievements)
  ELSE LET existingRecord == RowById(achievements, The(ParseInt(idParam))) IN
    IF existingRecord = {} THEN Reply(404, Some("NOT_FOUND"), {}, achievements)
    ELSE IF body = NotJson THEN Reply(500, None, {}, achievements)
    ELSE IF body.title # None /\ Trim(The(body.title)) = <<>>
      THEN Reply(400, Some("INVALID_TITLE"), {}, achievements)
    ELSE IF body.requirementType # None /\ Trim(The(body.requirementType)) = <<>>
      THEN Reply(400, Some("INVALID_REQUIREMENT_TYPE"), {}, achievements)
    \* this handler has no early return for an empty update: .set({}) throws
    ELSE IF \A f \in DOMAIN body \ {"uid"} : body[f] = None
      THEN Reply(500, None, {}, achievements)
    ELSE
      LET old == The(existingRecord)
          updated ==
            [old EXCEPT
               !.title = IF body.title # None THEN Trim(The(body.title)) ELSE @,
               !.description = IF body.description # None
                                 THEN TrimOrNull(body.description) ELSE @,
               !.icon = IF body.icon # None THEN TrimOrNull(body.icon) ELSE @,
               !.xpReward = IF body.xpReward # None THEN The(body.xpReward) ELSE @,
               !.requirementType = IF body.requirementType # None
                                     THEN Trim(The(body.requirementType)) ELSE @,
               !.requirementValue = IF body.requirementValue # None
                                      THEN The(body.requirementValue) ELSE @]
      IN  Reply(200, None, {updated},
                (achievements \ existingRecord) \cup {updated})

AchievementsDELETE(caller, idParam) ==
  IF InvalidId(idParam) THEN Reply(400, Some("INVALID_ID"), {}, achievements)
  ELSE LET existingRecord == RowById(achievements, The(ParseInt(idParam))) IN
    IF existingRecord = {} THEN Reply(404, Some("NOT_FOUND"), {}, achievements)
    ELSE Reply(200, None, existingRecord, achievements \ existingRecord)

\* -------------------------------------------------- /api/learning-paths
\* (the handlers of this route never call getCurrentUser)
LearningPathBodies ==
  { [uid |-> None, title |-> Some(<<" ", "Rust">>), description |-> None,
     difficulty |-> Some(<<"advanced">>), estimatedHours |-> Some(30),
     icon |-> None, orderIndex |-> Some(2)],
    [uid |-> None, title |-> None, description |-> Some(<<"d", " ">>),
     difficulty |-> None, estimatedHours |-> None,
     icon |-> None, orderIndex |-> Some(5)],
    [uid |-> None, title |-> None, description |-> None,
     difficulty |-> None, estimatedHours |-> Some(0),
     icon |-> None, orderIndex |-> None],
    [uid |-> None, title |-> None, description |-> None,
     difficulty |-> None, estimatedHours |-> None,
     icon |-> None, orderIndex |-> None],
    NotJson }

LearningPathsGET(caller, idParam, paging) ==
  IF idParam # <<>> THEN
    IF InvalidId(idParam) THEN Reply(400, Some("INVALID_ID"), {}, learningPaths)
    ELSE LET record == RowById(learningPaths, The(ParseInt(idParam))) IN
      IF record = {} THEN Reply(404, Some("NOT_FOUND"), {}, learningPaths)
      ELSE Reply(200, None, record, learningPaths)
  ELSE ListReply(learningPaths, paging, learningPaths)

LearningPathsPOST(caller, body) ==
  IF body = NotJson THEN Reply(500, None, {}, learningPaths)
  ELSE IF body.title = None \/ The(body.title) = <<>>
    THEN Reply(400, Some("MISSING_TITLE"), {}, learningPaths)
  ELSE IF body.difficulty = None \/ The(body.difficulty) = <<>>
    THEN Reply(400, Some("MISSING_DIFFICULTY"), {}, learningPaths)
  ELSE IF body.estimatedHours = None
    THEN Reply(400, Some("MISSING_ESTIMATED_HOURS"), {}, learningPaths)
  ELSE IF body.orderIndex = None
    THEN Reply(400, Some("MISSING_ORDER_INDEX"), {}, learningPaths)
  ELSE IF Trim(The(body.title)) = <<>>
    THEN Reply(400, Some("INVALID_TITLE"), {}, learningPaths)
  ELSE IF Trim(The(body.difficulty)) = <<>>
    THEN Reply(400, Some("INVALID_DIFFICULTY"), {}, learningPaths)
  ELSE IF The(body.estimatedHours) <= 0
    THEN Reply(400, Some("INVALID_ESTIMATED_HOURS"), {}, learningPaths)
  ELSE IF The(body.orderIndex) < 0
    THEN Reply(400, Some("INVALID_ORDER_INDEX"), {}, learningPaths)
  ELSE
    LET newLearningPath ==
          [id |-> nextId["learning_paths"],
           title |-> Trim(The(body.title)),
           description |-> TrimOrNull(body.description),
           difficulty |-> Trim(The(body.difficulty)),
           estimatedHours |-> The(body.estimatedHours),
           icon |-> TrimOrNull(body.icon),
           orderIndex |-> The(body.orderIndex),
           createdAt |-> Now]
    IN  Reply(201, None, {newLearningPath},
              learningPaths \cup {newLearningPath})

LearningPathsPUT(caller, idParam, body) ==
  IF InvalidId(idParam) THEN Reply(400, Some("INVALID_ID"), {}, learningPaths)
  ELSE LET existing == RowById(learningPaths, The(ParseInt(idParam))) IN
    IF existing = {} THEN Reply(404, Some("NOT_FOUND"), {}, learningPaths)
    ELSE IF body = NotJson THEN Reply(500, None, {}, learningPaths)
    ELSE IF body.title # None /\ Trim(The(body.title)) = <<>>
      THEN Reply(400, Some("INVALID_TITLE"), {}, learningPaths)
    ELSE IF body.difficulty # None /\ Trim(The(body.difficulty)) = <<>>
      THEN Reply(400, Some("INVALID_DIFFICULTY"), {}, learningPaths)
    ELSE IF body.estimatedHours # None /\ The(body.estimatedHours) <= 0
      THEN Reply(400, Some("INVALID_ESTIMATED_HOURS"), {}, learningPaths)
    ELSE IF body.orderIndex # None /\ The(body.orderIndex) < 0
      THEN Reply(400, Some("INVALID_ORDER_INDEX"), {}, learningPaths)
    \* no member to update: the current record is returned
    ELSE IF \A f \in DOMAIN body \ {"uid"} : body[f] = None
      THEN Reply(200, None, existing, learningPaths)
    ELSE
      LET old == The(existing)
          updated ==
            [old EXCEPT
               !.title = IF body.title # None THEN Trim(The(body.title)) ELSE @,
               !.description = IF body.description # None
                                 THEN TrimOrNull(body.description) ELSE @,
               !.difficulty = IF body.difficulty # None
                                THEN Trim(The(body.difficulty)) ELSE @,
               !.estimatedHours = IF body.estimatedHours # None
                                    THEN The(body.estimatedHours) ELSE @,
               !.icon = IF body.icon # None THEN TrimOrNull(body.icon) ELSE @,
               !.orderIndex = IF body.orderIndex # None
                                THEN The(body.orderIndex) ELSE @]
      IN  Reply(200, None, {updated}, (learningPaths \ existing) \cup {updated})

LearningPathsDELETE(caller, idParam) ==
  IF InvalidId(idParam) THEN Reply(400, Some("INVALID_ID"), {}, learningPaths)
  ELSE LET existing == RowById(learningPaths, The(ParseInt(idParam))) IN
    IF existing = {} THEN Reply(404, Some("NOT_FOUND"), {}, learningPaths)
    ELSE Reply(200, None, existing, learningPaths \ existing)

\* ---------------------------------------------------------- /api/lessons
LessonBodies ==
  { [uid |-> None, learningPathId |-> Some(Num(1)), title |-> Some(<<" ", "Intro">>),
     description |-> None, content |-> None, difficulty |-> Some(<<"easy">>),
     xpReward |-> Some(Num(20)), orderIndex |-> Some(Num(3)),
     estimatedMinutes |-> Some(Str(<<"1", "0">>))],
    [uid |-> None, learningPathId |-> Some(Num(2)), title |-> Some(<<"Intro">>),
     description |-> None, content |-> None, difficulty |-> Some(<<"easy">>),
     xpReward |-> Some(Num(20)), orderIndex |-> Some(Num(3)),
     estimatedMinutes |-> Some(Num(10))],
    [uid |-> None, learningPathId |-> Some(Str(<<"1", "a", "b", "c">>)),
     title |-> Some(<<"Intro">>),
     description |-> None, content |-> None, difficulty |-> Some(<<"easy">>),
     xpReward |-> Some(Num(20)), orderIndex |-> Some(Num(3)),
     estimatedMinutes |-> Some(Num(10))],
    [uid |-> None, learningPathId |-> None, title |-> Some(<<"Renamed">>),
     description |-> Some(<<>>), content |-> None, difficulty |-> None,
     xpReward |-> None, orderIndex |-> None, estimatedMinutes |-> None],
    [uid |-> None, learningPathId |-> None, title |-> None,
     description |-> None, content |-> None, difficulty |-> None,
     xpReward |-> Some(Str(<<"x">>)), orderIndex |-> None, estimatedMinutes |-> None],
    [uid |-> None, learningPathId |-> None, title |-> None,
     description |-> None, content |-> None, difficulty |-> None,
     xpReward |-> None, orderIndex |-> None, estimatedMinutes |-> None],
    NotJson }

LessonsGET(caller, idParam, paging) ==
  LET user == getCurrentUser(caller) IN
  IF user = NULL THEN Reply(401, None, {}, lessons)
  ELSE IF idParam # <<>> THEN
    IF InvalidId(idParam) THEN Reply(400, Some("INVALID_ID"), {}, lessons)
    ELSE LET lesson == RowById(lessons, The(ParseInt(idParam))) IN
      IF lesson = {} THEN Reply(404, Some("LESSON_NOT_FOUND"), {}, lessons)
      ELSE Reply(200, None, lesson, lessons)
  ELSE ListReply(lessons, paging, lessons)

\* db.insert(lessons).values({...}).returning() and the 201 answer
InsertLesson(body) ==
  LET newLesson ==
        [id |-> nextId["lessons"],
         learningPathId |-> The(ParseIntOf(The(body.learningPathId))),
         title |-> Trim(The(body.title)),
         description |-> TrimOrNull(body.description),
         content |-> TrimOrNull(body.content),
         difficulty |-> Trim(The(body.difficulty)),
         xpReward |-> The(ParseIntOf(The(body.xpReward))),
         orderIndex |-> The(ParseIntOf(The(body.orderIndex))),
         estimatedMinutes |-> The(ParseIntOf(The(body.estimatedMinutes))),
         createdAt |-> Now]
  IN  Reply(201, None, {newLesson}, lessons \cup {newLesson})

LessonsPOST(caller, body) ==
  LET user == getCurrentUser(caller) IN
  IF user = NULL THEN Reply(401, None, {}, lessons)
  ELSE IF body = NotJson THEN Reply(500, None, {}, lessons)
  ELSE IF body.learningPathId = None \/ Falsy(The(body.learningPathId))
    THEN Reply(400, Some("MISSING_LEARNING_PATH_ID"), {}, lessons)
  ELSE IF body.title = None \/ Trim(The(body.title)) = <<>>
    THEN Reply(400, Some("MISSING_TITLE"), {}, lessons)
  ELSE IF body.difficulty = None \/ Trim(The(body.difficulty)) = <<>>
    THEN Reply(400, Some("MISSING_DIFFICULTY"), {}, lessons)
  ELSE IF body.xpReward = None
    THEN Reply(400, Some("MISSING_XP_REWARD"), {}, lessons)
  ELSE IF body.orderIndex = None
    THEN Reply(400, Some("MISSING_ORDER_INDEX"), {}, lessons)
  ELSE IF body.estimatedMinutes = None
    THEN Reply(400, Some("MISSING_ESTIMATED_MINUTES"), {}, lessons)
  \* the lookup comes before the isNaN test of the same member
  ELSE IF ParseIntOf(The(body.learningPathId)) = NaN
            \/ RowById(learningPaths, The(ParseIntOf(The(body.learningPathId)))) = {}
    THEN Reply(400, Some("INVALID_LEARNING_PATH"), {}, lessons)
  ELSE IF ParseIntOf(The(body.xpReward)) = NaN
    THEN Reply(400, Some("INVALID_XP_REWARD"), {}, lessons)
  ELSE IF ParseIntOf(The(body.orderIndex)) = NaN
    THEN Reply(400, Some("INVALID_ORDER_INDEX"), {}, lessons)
  ELSE IF ParseIntOf(The(body.estimatedMinutes)) = NaN
    THEN Reply(400, Some("INVALID_ESTIMATED_MINUTES"), {}, lessons)
  ELSE InsertLesson(body)

LessonsPUT(caller, idParam, body) ==
  LET user == getCurrentUser(caller) IN
  IF user = NULL THEN Reply(401, None, {}, lessons)
  ELSE IF InvalidId(idParam) THEN Reply(400, Some("INVALID_ID"), {}, lessons)
  ELSE LET existingLesson == RowById(lessons, The(ParseInt(idParam))) IN
    IF existingLesson = {} THEN Reply(404, Some("LESSON_NOT_FOUND"), {}, lessons)
    ELSE IF body = NotJson THEN Reply(500, None, {}, lessons)
    ELSE IF body.learningPathId # None /\ ParseIntOf(The(body.learningPathId)) = NaN
      THEN Reply(400, Some("INVALID_LEARNING_PATH_ID"), {}, lessons)
    ELSE IF body.learningPathId # None
              /\ RowById(learningPaths, The(ParseIntOf(The(body.learningPathId)))) = {}
      THEN Reply(400, Some("INVALID_LEARNING_PATH"), {}, lessons)
    ELSE IF body.title # None /\ Trim(The(body.title)) = <<>>
      THEN Reply(400, Some("INVALID_TITLE"), {}, lessons)
    ELSE IF body.difficulty # None /\ Trim(The(body.difficulty)) = <<>>
      THEN Reply(400, Some("INVALID_DIFFICULTY"), {}, lessons)
    ELSE IF body.xpReward # None /\ ParseIntOf(The(body.xpReward)) = NaN
      THEN Reply(400, Some("INVALID_XP_REWARD"), {}, lessons)
    ELSE IF body.orderIndex # None /\ ParseIntOf(The(body.orderIndex)) = NaN
      THEN Reply(400, Some("INVALID_ORDER_INDEX"), {}, lessons)
    ELSE IF body.estimatedMinutes # None /\ ParseIntOf(The(body.estimatedMinutes)) = NaN
      THEN Reply(400, Some("INVALID_ESTIMATED_MINUTES"), {}, lessons)
    \* no updates provided: the current record is returned
    ELSE IF \A f \in DOMAIN body \ {"uid"} : body[f] = None
      THEN Reply(200, None, existingLesson, lessons)
    ELSE
      LET old == The(existingLesson)
          updated ==
            [old EXCEPT
               !.learningPathId = IF body.learningPathId # None
                                    THEN The(ParseIntOf(The(body.learningPathId))) ELSE @,
               !.title = IF body.title # None THEN Trim(The(body.title)) ELSE @,
               !.description = IF body.description # None
                                 THEN TrimOrNull(body.description) ELSE @,
               !.content = IF body.content # None
                             THEN TrimOrNull(body.content) ELSE @,
               !.difficulty = IF body.difficulty # None
                                THEN Trim(The(body.difficulty)) ELSE @,
               !.xpReward = IF body.xpReward # None
                              THEN The(ParseIntOf(The(body.xpReward))) ELSE @,
               !.orderIndex = IF body.orderIndex # None
                                THEN The(ParseIntOf(The(body.orderIndex))) ELSE @,
               !.estimatedMinutes = IF body.estimatedMinutes # None
                                      THEN The(ParseIntOf(The(body.estimatedMinutes)))
                                      ELSE @]
      IN  Reply(200, None, {updated}, (lessons \ existingLesson) \cup {updated})

LessonsDELETE(caller, idParam) ==
  LET user == getCurrentUser(caller) IN
  IF user = NULL THEN Reply(401, None, {}, lessons)
  ELSE IF InvalidId(idParam) THEN Reply(400, Some("INVALID_ID"), {}, lessons)
  ELSE LET existingLesson == RowById(lessons, The(ParseInt(idParam))) IN
    IF existingLesson = {} THEN Reply(404, Some("LESSON_NOT_FOUND"), {}, lessons)
    ELSE Reply(200, None, existingLesson, lessons \ existingLesson)

\* ---------------------------------------------------------- /api/quizzes
QuizBodies ==
  { [uid |-> None, lessonId |-> Some(Num(1)), question |-> Some(<<"Q2", " ">>),
     options |-> Some("[C,D]"), correctAnswer |-> Some(<<"C">>),
     explanation |-> None, difficulty |-> Some(<<"easy">>), xpReward |-> Some(Num(5))],
    [uid |-> None, lessonId |-> Some(Num(3)), question |-> Some(<<"Q2">>),
     options |-> Some("[C,D]"), correctAnswer |-> Some(<<"C">>),
     explanation |-> None, difficulty |-> Some(<<"easy">>), xpReward |-> Some(Num(5))],
    [uid |-> None, lessonId |-> Some(Str(<<"2", "x">>)), question |-> Some(<<"Q2">>),
     options |-> Some("[C,D]"), correctAnswer |-> Some(<<"C">>),
     explanation |-> None, difficulty |-> Some(<<"easy">>), xpReward |-> Some(Num(5))],
    [uid |-> None, lessonId |-> Some(Str(<<"x">>)), question |-> Some(<<"Q2">>),
     options |-> Some("[C,D]"), correctAnswer |-> Some(<<"C">>),
     explanation |-> None, difficulty |-> Some(<<"easy">>), xpReward |-> Some(Num(5))],
    [uid |-> None, lessonId |-> None, question |-> None,
     options |-> None, correctAnswer |-> Some(<<"B">>),
     explanation |-> Some(<<"why">>), difficulty |-> None, xpReward |-> None],
    [uid |-> None, lessonId |-> None, question |-> None,
     options |-> None, correctAnswer |-> None,
     explanation |-> None, difficulty |-> None, xpReward |-> Some(Str(<<"5">>))],
    [uid |-> None, lessonId |-> None, question |-> None,
     options |-> None, correctAnswer |-> None,
     explanation |-> None, difficulty |-> None, xpReward |-> None],
    NotJson }

QuizzesGET(caller, idParam, paging) ==
  LET user == getCurrentUser(caller) IN
  IF user = NULL THEN Reply(401, None, {}, quizzes)
  ELSE IF idParam # <<>> THEN
    IF InvalidId(idParam) THEN Reply(400, Some("INVALID_ID"), {}, quizzes)
    ELSE LET quiz == RowById(quizzes, The(ParseInt(idParam))) IN
      IF quiz = {} THEN Reply(404, Some("NOT_FOUND"), {}, quizzes)
      ELSE Reply(200, None, quiz, quizzes)
  ELSE ListReply(quizzes, paging, quizzes)

\* db.insert(quizzes).values({...}).returning() and the 201 answer
InsertQuiz(body) ==
  LET newQuiz ==
        [id |-> nextId["quizzes"],
         lessonId |-> The(ParseIntOf(The(body.lessonId))),
         question |-> Trim(The(body.question)),
         options |-> The(body.options),
         correctAnswer |-> Trim(The(body.correctAnswer)),
         explanation |-> TrimOrNull(body.explanation),
         difficulty |-> Trim(The(body.difficulty)),
         xpReward |-> The(ParseIntOf(The(body.xpReward))),
         createdAt |-> Now]
  IN  Reply(201, None, {newQuiz}, quizzes \cup {newQuiz})

QuizzesPOST(caller, body) ==
  LET user == getCurrentUser(caller) IN
  IF user = NULL THEN Reply(401, None, {}, quizzes)
  ELSE IF body = NotJson THEN Reply(500, None, {}, quizzes)
  ELSE IF body.lessonId = None \/ Falsy(The(body.lessonId))
    THEN Reply(400, Some("MISSING_LESSON_ID"), {}, quizzes)
  ELSE IF body.question = None \/ Trim(The(body.question)) = <<>>
    THEN Reply(400, Some("MISSING_QUESTION"), {}, quizzes)
  ELSE IF body.options = None \/ The(body.options) = ""
    THEN Reply(400, Some("MISSING_OPTIONS"), {}, quizzes)
  ELSE IF body.correctAnswer = None \/ Trim(The(body.correctAnswer)) = <<>>
    THEN Reply(400, Some("MISSING_CORRECT_ANSWER"), {}, quizzes)
  ELSE IF body.difficulty = None \/ Trim(The(body.difficulty)) = <<>>
    THEN Reply(400, Some("MISSING_DIFFICULTY"), {}, quizzes)
  ELSE IF body.xpReward = None \/ ~IsNum(The(body.xpReward))
    THEN Reply(400, Some("MISSING_XP_REWARD"), {}, quizzes)
  ELSE IF ParseIntOf(The(body.lessonId)) = NaN
    THEN Reply(400, Some("INVALID_LESSON_ID"), {}, quizzes)
  ELSE IF RowById(lessons, The(ParseIntOf(The(body.lessonId)))) = {}
    THEN Reply(400, Some("LESSON_NOT_FOUND"), {}, quizzes)
  ELSE InsertQuiz(body)

QuizzesPUT(caller, idParam, body) ==
  LET user == getCurrentUser(caller) IN
  IF user = NULL THEN Reply(401, None, {}, quizzes)
  ELSE IF InvalidId(idParam) THEN Reply(400, Some("INVALID_ID"), {}, quizzes)
  ELSE LET existingQuiz == RowById(quizzes, The(ParseInt(idParam))) IN
    IF existingQuiz = {} THEN Reply(404, Some("NOT_FOUND"), {}, quizzes)
    ELSE IF body = NotJson THEN Reply(500, None, {}, quizzes)
    ELSE IF body.lessonId # None /\ ParseIntOf(The(body.lessonId)) = NaN
      THEN Reply(400, Some("INVALID_LESSON_ID"), {}, quizzes)
    ELSE IF body.lessonId # None
              /\ RowById(lessons, The(ParseIntOf(The(body.lessonId)))) = {}
      THEN Reply(400, Some("LESSON_NOT_FOUND"), {}, quizzes)
    ELSE IF body.question # None /\ Trim(The(body.question)) = <<>>
      THEN Reply(400, Some("INVALID_QUESTION"), {}, quizzes)
    ELSE IF body.correctAnswer # None /\ Trim(The(body.correctAnswer)) = <<>>
      THEN Reply(400, Some("INVALID_CORRECT_ANSWER"), {}, quizzes)
    ELSE IF body.difficulty # None /\ Trim(The(body.difficulty)) = <<>>
      THEN Reply(400, Some("INVALID_DIFFICULTY"), {}, quizzes)
    ELSE IF body.xpReward # None /\ ~IsNum(The(body.xpReward))
      THEN Reply(400, Some("INVALID_XP_REWARD"), {}, quizzes)
    \* this handler has no early return for an empty update: .set({}) throws
    ELSE IF \A f \in DOMAIN body \ {"uid"} : body[f] = None
      THEN Reply(500, None, {}, quizzes)
    ELSE
      LET old == The(existingQuiz)
          updated ==
            [old EXCEPT
               !.lessonId = IF body.lessonId # None
                              THEN The(ParseIntOf(The(body.lessonId))) ELSE @,
               !.question = IF body.question # None
                              THEN Trim(The(body.question)) ELSE @,
               !.options = IF body.options # None THEN The(body.options) ELSE @,
               !.correctAnswer = IF body.correctAnswer # None
                                   THEN Trim(The(body.correctAnswer)) ELSE @,
               !.explanation = IF body.explanation # None
                                 THEN TrimOrNull(body.explanation) ELSE @,
               !.difficulty = IF body.difficulty # None
                                THEN Trim(The(body.difficulty)) ELSE @,
               !.xpReward = IF body.xpReward # None
                              THEN The(ParseIntOf(The(body.xpReward))) ELSE @]
      IN  Reply(200, None, {updated}, (quizzes \ existingQuiz) \cup {updated})

QuizzesDELETE(caller, idParam) ==
  LET user == getCurrentUser(caller) IN
  IF user = NULL THEN Reply(401, None, {}, quizzes)
  ELSE IF InvalidId(idParam) THEN Reply(400, Some("INVALID_ID"), {}, quizzes)
  ELSE LET existingQuiz == RowById(quizzes, The(ParseInt(idParam))) IN
    IF existingQuiz = {} THEN Reply(404, Some("NOT_FOUND"), {}, quizzes)
    ELSE Reply(200, None, existingQuiz, quizzes \ existingQuiz)

\* ------------------------------------------------------------ the store
\* seeded reference data: one achievement (db/seeds/achievements), one
\* learning path (db/seeds/learning_paths), two lessons of it and one quiz
\* whose correct answer is "A"
SeedAchievements ==
  { [id |-> 1, title |-> <<"First Steps">>,
     description |-> Some(<<"Complete your first lesson">>), icon |-> None,
     xpReward |-> 50, requirementType |-> <<"lessons_completed">>,
     requirementValue |-> 1, createdAt |-> "seed"] }
SeedLearningPaths ==
  { [id |-> 1, title |-> <<"JavaScript Basics">>,
     description |-> Some(<<"Master the fundamentals">>),
     difficulty |-> <<"beginner">>, estimatedHours |-> 12,
     icon |-> Some(<<"js">>), orderIndex |-> 1, createdAt |-> "seed"] }
SeedLessons ==
  { [id |-> i, learningPathId |-> 1, title |-> <<"Lesson">>,
     description |-> None, content |-> None, difficulty |-> <<"beginner">>,
     xpReward |-> 50, orderIndex |-> i, estimatedMinutes |-> 15,
     createdAt |-> "seed"] : i \in {1, 2} }
SeedQuizzes ==
  { [id |-> 1, lessonId |-> 1, question |-> <<"Q">>, options |-> "[A,B]",
     correctAnswer |-> <<"A">>, explanation |-> None,
     difficulty |-> <<"beginner">>, xpReward |-> 10, createdAt |-> "seed"] }

InitStore ==
  /\ lessonProgress = {}
  /\ quizAttempts = {}
  /\ repositories = {}
  /\ userAchievements = {}
  /\ userProgress = {}
  /\ achievements = SeedAchievements
  /\ learningPaths = SeedLearningPaths
  /\ lessons = SeedLessons
  /\ quizzes = SeedQuizzes
  /\ nextId = InitNextId
  /\ clock = 0

\* the insert of a handler consumed the table's next AUTOINCREMENT id
Bump(t, r) == IF r.status = 201 THEN [nextId EXCEPT ![t] = @ + 1] ELSE nextId

\* --------------------------------------------------------------- requests
\* one action per handler: the request is drawn from the given callers, the
\* id parameters and the given bodies, and the handler runs to its response.
\* A behaviour sends its requests to one route (no handler reads or writes
\* the table of another route, except for the reference data).
storeVars == <<lessonProgress, quizAttempts, repositories, userAchievements,
               userProgress, achievements, learningPaths, lessons, quizzes>>
UserRoutes == {"lesson-progress", "quiz-attempts", "repositories",
               "user-achievements", "user-progress"}
Routes == UserRoutes \cup {"achievements"}
ContentRoutes == {"learning-paths", "lessons", "quizzes"}
\* the request goes to route r: the behaviour is one of requests to r, or
\* one of requests to every route
OnRoute(r) == route \in {r, "any"}

\* Variant of CascadeDelete: a delete that leaves the referencing rows.
CascadeNothing(children, fk, deleted) == children
\* ON DELETE cascade: the rows that reference a deleted row go with it
CascadeDelete(children, fk, deleted) ==
  {c \in children : \A d \in deleted : c[fk] # d.id}

GetLessonProgress(callers, pagings) ==
  \E caller \in callers, idParam \in IdParams, paging \in pagings :
    LET r == LessonProgressGET(caller, idParam, paging) IN
    /\ route = "lesson-progress"
    /\ resp' = ServedGet(caller, idParam, paging, r)
    /\ UNCHANGED <<storeVars, nextId, route, clock, pages, puts, analysis, generation, posts>>

PostLessonProgress(callers, bodies) ==
  \E caller \in callers, body \in bodies :
    LET r == LessonProgressPOST(caller, body) IN
    /\ OnRoute("lesson-progress")
    /\ CanInsert
    /\ lessonProgress' = r.tbl
    /\ nextId' = Bump("lesson_progress", r)
    /\ resp' = Served("POST", caller, <<>>, body, r)
    /\ UNCHANGED <<quizAttempts, repositories, userAchievements, userProgress, achievements, learningPaths, lessons, quizzes, route, clock, pages, puts, analysis, generation, posts>>

PutLessonProgress(callers, bodies) ==
  \E caller \in callers, idParam \in IdParams, body \in bodies :
    LET r == LessonProgressPUT(caller, idParam, body) IN
    /\ route = "lesson-progress"
    /\ lessonProgress' = r.tbl
    /\ resp' = Served("PUT", caller, idParam, body, r)
    /\ UNCHANGED <<quizAttempts, repositories, userAchievements, userProgress, achievements, learningPaths, lessons, quizzes, nextId, route, clock, pages, puts, analysis, generation, posts>>

DeleteLessonProgress(callers) ==
  \E caller \in callers, idParam \in IdParams :
    LET r == LessonProgressDELETE(caller, idParam) IN
    /\ route = "lesson-progress"
    /\ lessonProgress' = r.tbl
    /\ resp' = Served("DELETE", caller, idParam, NoBody, r)
    /\ UNCHANGED <<quizAttempts, repositories, userAchievements, userProgress, achievements, learningPaths, lessons, quizzes, nextId, route, clock, pages, puts, analysis, generation, posts>>

GetQuizAttempts(callers, pagings) ==
  \E caller \in callers, idParam \in IdParams, paging \in pagings :
    LET r == QuizAttemptsGET(caller, idParam, paging) IN
    /\ route = "quiz-attempts"
    /\ resp' = ServedGet(caller, idParam, paging, r)
    /\ UNCHANGED <<storeVars, nextId, route, clock, pages, puts, analysis, generation, posts>>

PostQuizAttempts(callers, bodies) ==
  \E caller \in callers, body \in bodies :
    LET r == QuizAttemptsPOST(caller, body) IN
    /\ OnRoute("quiz-attempts")
    /\ CanInsert
    /\ quizAttempts' = r.tbl
    /\ nextId' = Bump("quiz_attempts", r)
    /\ resp' = Served("POST", caller, <<>>, body, r)
    /\ UNCHANGED <<lessonProgress, repositories, userAchievements, userProgress, achievements, learningPaths, lessons, quizzes, route, clock, pages, puts, analysis, generation, posts>>

PutQuizAttempts(callers, bodies) ==
  \E caller \in callers, idParam \in IdParams, body \in bodies :
    LET r == QuizAttemptsPUT(caller, idParam, body) IN
    /\ route = "quiz-attempts"
    /\ quizAttempts' = r.tbl
    /\ resp' = Served("PUT", caller, idParam, body, r)
    /\ UNCHANGED <<lessonProgress, repositories, userAchievements, userProgress, achievements, learningPaths, lessons, quizzes, nextId, route, clock, pages, puts, analysis, generation, posts>>

DeleteQuizAttempts(callers) ==
  \E caller \in callers, idParam \in IdParams :
    LET r == QuizAttemptsDELETE(caller, idParam) IN
    /\ route = "quiz-attempts"
    /\ quizAttempts' = r.tbl
    /\ resp' = Served("DELETE", caller, idParam, NoBody, r)
    /\ UNCHANGED <<lessonProgress, repositories, userAchievements, userProgress, achievements, learningPaths, lessons, quizzes, nextId, route, clock, pages, puts, analysis, generation, posts>>

GetRepositories(callers, pagings) ==
  \E caller \in callers, idParam \in IdParams, paging \in pagings :
    LET r == RepositoriesGET(caller, idParam, paging) IN
    /\ route = "repositories"
    /\ resp' = ServedGet(caller, idParam, paging, r)
    /\ UNCHANGED <<storeVars, nextId, route, clock, pages, puts, analysis, generation, posts>>

PostRepositories(callers, bodies) ==
  \E caller \in callers, body \in bodies :
    LET r == RepositoriesPOST(caller, body) IN
    /\ OnRoute("repositories")
    /\ CanInsert
    /\ repositories' = r.tbl
    /\ nextId' = Bump("repositories", r)
    /\ resp' = Served("POST", caller, <<>>, body, r)
    /\ UNCHANGED <<lessonProgress, quizAttempts, userAchievements, userProgress, achievements, learningPaths, lessons, quizzes, route, clock, pages, puts, analysis, generation, posts>>

PutRepositories(callers, bodies) ==
  \E caller \in callers, idParam \in IdParams, body \in bodies :
    LET r == RepositoriesPUT(caller, idParam, body) IN
    /\ route = "repositories"
    /\ repositories' = r.tbl
    /\ resp' = Served("PUT", caller, idParam, body, r)
    /\ UNCHANGED <<lessonProgress, quizAttempts, userAchievements, userProgress, achievements, learningPaths, lessons, quizzes, nextId, route, clock, pages, puts, analysis, generation, posts>>

DeleteRepositories(callers) ==
  \E caller \in callers, idParam \in IdParams :
    LET r == RepositoriesDELETE(caller, idParam) IN
    /\ route = "repositories"
    /\ repositories' = r.tbl
    /\ resp' = Served("DELETE", caller, idParam, NoBody, r)
    /\ UNCHANGED <<lessonProgress, quizAttempts, userAchievements, userProgress, achievements, learningPaths, lessons, quizzes, nextId, route, clock, pages, puts, analysis, generation, posts>>

GetUserAchievements(callers, pagings) ==
  \E caller \in callers, idParam \in IdParams, paging \in pagings :
    LET r == UserAchievementsGET(caller, idParam, paging) IN
    /\ route = "user-achievements"
    /\ resp' = ServedGet(caller, idParam, paging, r)
    /\ UNCHANGED <<storeVars, nextId, route, clock, pages, puts, analysis, generation, posts>>

PostUserAchievements(callers, bodies) ==
  \E caller \in callers, body \in bodies :
    LET r == UserAchievementsPOST(caller, body) IN
    /\ route = "user-achievements"
    /\ CanInsert
    /\ userAchievements' = r.tbl
    /\ nextId' = Bump("user_achievements", r)
    /\ resp' = Served("POST", caller, <<>>, body, r)
    /\ UNCHANGED <<lessonProgress, quizAttempts, repositories, userProgress, achievements, learningPaths, lessons, quizzes, route, clock, pages, puts, analysis, generation, posts>>

PutUserAchievements(callers, bodies) ==
  \E caller \in callers, idParam \in IdParams, body \in bodies :
    LET r == UserAchievementsPUT(caller, idParam, body) IN
    /\ route = "user-achievements"
    /\ userAchievements' = r.tbl
    /\ resp' = Served("PUT", caller, idParam, body, r)
    /\ UNCHANGED <<lessonProgress, quizAttempts, repositories, userProgress, achievements, learningPaths, lessons, quizzes, nextId, route, clock, pages, puts, analysis, generation, posts>>

DeleteUserAchievements(callers) ==
  \E caller \in callers, idParam \in IdParams :
    LET r == UserAchievementsDELETE(caller, idParam) IN
    /\ route = "user-achievements"
    /\ userAchievements' = r.tbl
    /\ resp' = Served("DELETE", caller, idParam, NoBody, r)
    /\ UNCHANGED <<lessonProgress, quizAttempts, repositories, userProgress, achievements, learningPaths, lessons, quizzes, nextId, route, clock, pages, puts, analysis, generation, posts>>

GetUserProgress(callers, pagings) ==
  \E caller \in callers, idParam \in IdParams, paging \in pagings :
    LET r == UserProgressGET(caller, idParam, paging) IN
    /\ route = "user-progress"
    /\ resp' = ServedGet(caller, idParam, paging, r)
    /\ UNCHANGED <<storeVars, nextId, route, clock, pages, puts, analysis, generation, posts>>

PostUserProgress(callers, bodies) ==
  \E caller \in callers, body \in bodies :
    LET r == UserProgressPOST(caller, body) IN
    /\ route = "user-progress"
    /\ CanInsert
    /\ userProgress' = r.tbl
    /\ nextId' = Bump("user_progress", r)
    /\ resp' = Served("POST", caller, <<>>, body, r)
    /\ UNCHANGED <<lessonProgress, quizAttempts, repositories, userAchievements, achievements, learningPaths, lessons, quizzes, route, clock, pages, puts, analysis, generation, posts>>

PutUserProgress(callers, bodies) ==
  \E caller \in callers, idParam \in IdParams, body \in bodies :
    LET r == UserProgressPUT(caller, idParam, body) IN
    /\ route = "user-progress"
    /\ userProgress' = r.tbl
    /\ resp' = Served("PUT", caller, idParam, body, r)
    /\ UNCHANGED <<lessonProgress, quizAttempts, repositories, userAchievements, achievements, learningPaths, lessons, quizzes, nextId, route, clock, pages, puts, analysis, generation, posts>>

DeleteUserProgress(callers) ==
  \E caller \in callers, idParam \in IdParams :
    LET r == UserProgressDELETE(caller, idParam) IN
    /\ route = "user-progress"
    /\ userProgress' = r.tbl
    /\ resp' = Served("DELETE", caller, idParam, NoBody, r)
    /\ UNCHANGED <<lessonProgress, quizAttempts, repositories, userAchievements, achievements, learningPaths, lessons, quizzes, nextId, route, clock, pages, puts, analysis, generation, posts>>

GetAchievements(callers, pagings) ==
  \E caller \in callers, idParam \in IdParams, paging \in pagings :
    LET r == AchievementsGET(caller, idParam, paging) IN
    /\ route = "achievements"
    /\ resp' = ServedGet(caller, idParam, paging, r)
    /\ UNCHANGED <<storeVars, nextId, route, clock, pages, puts, analysis, generation, posts>>

PostAchievements(callers, bodies) ==
  \E caller \in callers, body \in bodies :
    LET r == AchievementsPOST(caller, body) IN
    /\ route = "achievements"
    /\ CanInsert
    /\ achievements' = r.tbl
    /\ nextId' = Bump("achievements", r)
    /\ resp' = Served("POST", caller, <<>>, body, r)
    /\ UNCHANGED <<lessonProgress, quizAttempts, repositories, userAchievements, userProgress, learningPaths, lessons, quizzes, route, clock, pages, puts, analysis, generation, posts>>

PutAchievements(callers, bodies) ==
  \E caller \in callers, idParam \in IdParams, body \in bodies :
    LET r == AchievementsPUT(caller, idParam, body) IN
    /\ OnRoute("achievements")
    /\ achievements' = r.tbl
    /\ resp' = Served("PUT", caller, idParam, body, r)
    /\ UNCHANGED <<lessonProgress, quizAttempts, repositories, userAchievements, userProgress, learningPaths, lessons, quizzes, nextId, route, clock, pages, puts, analysis, generation, posts>>

DeleteAchievements(callers) ==
  \E caller \in callers, idParam \in IdParams :
    LET r == AchievementsDELETE(caller, idParam) IN
    /\ OnRoute("achievements")
    /\ achievements' = r.tbl
    /\ userAchievements' = CascadeDelete(userAchievements, "achievementId", achievements \ r.tbl)
    /\ resp' = Served("DELETE", caller, idParam, NoBody, r)
    /\ UNCHANGED <<lessonProgress, quizAttempts, repositories, userProgress, learningPaths, lessons, quizzes, nextId, route, clock, pages, puts, analysis, generation, posts>>

GetLearningPaths(callers, pagings) ==
  \E caller \in callers, idParam \in IdParams, paging \in pagings :
    LET r == LearningPathsGET(caller, idParam, paging) IN
    /\ OnRoute("learning-paths")
    /\ resp' = ServedGet(caller, idParam, paging, r)
    /\ UNCHANGED <<storeVars, nextId, route, clock, pages, puts, analysis, generation, posts>>

PostLearningPaths(callers, bodies) ==
  \E caller \in callers, body \in bodies :
    LET r == LearningPathsPOST(caller, body) IN
    /\ OnRoute("learning-paths")
    /\ CanInsert
    /\ learningPaths' = r.tbl
    /\ nextId' = Bump("learning_paths", r)
    /\ resp' = Served("POST", caller, <<>>, body, r)
    /\ UNCHANGED <<lessonProgress, quizAttempts, repositories, userAchievements, userProgress, achievements, lessons, quizzes, route, clock, pages, puts, analysis, generation, posts>>

PutLearningPaths(callers, bodies) ==
  \E caller \in callers, idParam \in IdParams, body \in bodies :
    LET r == LearningPathsPUT(caller, idParam, body) IN
    /\ OnRoute("learning-paths")
    /\ learningPaths' = r.tbl
    /\ resp' = Served("PUT", caller, idParam, body, r)
    /\ UNCHANGED <<lessonProgress, quizAttempts, repositories, userAchievements, userProgress, achievements, lessons, quizzes, nextId, route, clock, pages, puts, analysis, generation, posts>>

\* the DELETE statement takes the lessons of the path with it, and with them
\* their quizzes, and the progress rows and attempts that reference those
DeleteLearningPaths(callers) ==
  \E caller \in callers, idParam \in IdParams :
    LET r == LearningPathsDELETE(caller, idParam)
        lessonsLeft == CascadeDelete(lessons, "learningPathId", learningPaths \ r.tbl)
        quizzesLeft == CascadeDelete(quizzes, "lessonId", lessons \ lessonsLeft)
    IN
    /\ OnRoute("learning-paths")
    /\ learningPaths' = r.tbl
    /\ lessons' = lessonsLeft
    /\ quizzes' = quizzesLeft
    /\ lessonProgress' = CascadeDelete(lessonProgress, "lessonId", lessons \ lessonsLeft)
    /\ quizAttempts' = CascadeDelete(quizAttempts, "quizId", quizzes \ quizzesLeft)
    /\ resp' = Served("DELETE", caller, idParam, NoBody, r)
    /\ UNCHANGED <<repositories, userAchievements, userProgress, achievements, nextId, route, clock, pages, puts, analysis, generation, posts>>

GetLessons(callers, pagings) ==
  \E caller \in callers, idParam \in IdParams, paging \in pagings :
    LET r == LessonsGET(caller, idParam, paging) IN
    /\ OnRoute("lessons")
    /\ resp' = ServedGet(caller, idParam, paging, r)
    /\ UNCHANGED <<storeVars, nextId, route, clock, pages, puts, analysis, generation, posts>>

PostLessons(callers, bodies) ==
  \E caller \in callers, body \in bodies :
    LET r == LessonsPOST(caller, body) IN
    /\ OnRoute("lessons")
    /\ CanInsert
    /\ lessons' = r.tbl
    /\ nextId' = Bump("lessons", r)
    /\ resp' = Served("POST", caller, <<>>, body, r)
    /\ UNCHANGED <<lessonProgress, quizAttempts, repositories, userAchievements, userProgress, achievements, learningPaths, quizzes, route, clock, pages, puts, analysis, generation, posts>>

PutLessons(callers, bodies) ==
  \E caller \in callers, idParam \in IdParams, body \in bodies :
    LET r == LessonsPUT(caller, idParam, body) IN
    /\ OnRoute("lessons")
    /\ lessons' = r.tbl
    /\ resp' = Served("PUT", caller, idParam, body, r)
    /\ UNCHANGED <<lessonProgress, quizAttempts, repositories, userAchievements, userProgress, achievements, learningPaths, quizzes, nextId, route, clock, pages, puts, analysis, generation, posts>>

DeleteLessons(callers) ==
  \E caller \in callers, idParam \in IdParams :
    LET r == LessonsDELETE(caller, idParam)
        quizzesLeft == CascadeDelete(quizzes, "lessonId", lessons \ r.tbl)
    IN
    /\ OnRoute("lessons")
    /\ lessons' = r.tbl
    /\ quizzes' = quizzesLeft
    /\ lessonProgress' = CascadeDelete(lessonProgress, "lessonId", lessons \ r.tbl)
    /\ quizAttempts' = CascadeDelete(quizAttempts, "quizId", quizzes \ quizzesLeft)
    /\ resp' = Served("DELETE", caller, idParam, NoBody, r)
    /\ UNCHANGED <<repositories, userAchievements, userProgress, achievements, learningPaths, nextId, route, clock, pages, puts, analysis, generation, posts>>

GetQuizzes(callers, pagings) ==
  \E caller \in callers, idParam \in IdParams, paging \in pagings :
    LET r == QuizzesGET(caller, idParam, paging) IN
    /\ OnRoute("quizzes")
    /\ resp' = ServedGet(caller, idParam, paging, r)
    /\ UNCHANGED <<storeVars, nextId, route, clock, pages, puts, analysis, generation, posts>>

PostQuizzes(callers, bodies) ==
  \E caller \in callers, body \in bodies :
    LET r == QuizzesPOST(caller, body) IN
    /\ OnRoute("quizzes")
    /\ CanInsert
    /\ quizzes' = r.tbl
    /\ nextId' = Bump("quizzes", r)
    /\ resp' = Served("POST", caller, <<>>, body, r)
    /\ UNCHANGED <<lessonProgress, quizAttempts, repositories, userAchievements, userProgress, achievements, learningPaths, lessons, route, clock, pages, puts, analysis, generation, posts>>

PutQuizzes(callers, bodies) ==
  \E caller \in callers, idParam \in IdParams, body \in bodies :
    LET r == QuizzesPUT(caller, idParam, body) IN
    /\ OnRoute("quizzes")
    /\ quizzes' = r.tbl
    /\ resp' = Served("PUT", caller, idParam, body, r)
    /\ UNCHANGED <<lessonProgress, quizAttempts, repositories, userAchievements, userProgress, achievements, learningPaths, lessons, nextId, route, clock, pages, puts, analysis, generation, posts>>

DeleteQuizzes(callers) ==
  \E caller \in callers, idParam \in IdParams :
    LET r == QuizzesDELETE(caller, idParam) IN
    /\ OnRoute("quizzes")
    /\ quizzes' = r.tbl
    /\ quizAttempts' = CascadeDelete(quizAttempts, "quizId", quizzes \ r.tbl)
    /\ resp' = Served("DELETE", caller, idParam, NoBody, r)
    /\ UNCHANGED <<lessonProgress, repositories, userAchievements, userProgress, achievements, learningPaths, lessons, nextId, route, clock, pages, puts, analysis, generation, posts>>

\* a page that is not open: no session, no lesson loaded
ClosedPage ==
  [pc |-> "closed", user |-> Anonymous, lesson |-> None,
   lp |-> None, up |-> None]
NoPages == [p \in 1..MaxPages |-> ClosedPage]

\* a PUT handler that has not been entered
IdlePut == [pc |-> "idle", caller |-> Anonymous, idParam |-> <<>>,
            body |-> NoBody, existing |-> None]
NoPuts == [k \in 1..MaxPuts |-> IdlePut]

\* no analysis has been asked for
NoAnalysis == [asked |-> FALSE]
\* no quiz has been asked for
NoGeneration == [asked |-> FALSE]

\* a POST handler of /api/lessons or /api/quizzes that has not been entered
IdlePost == [pc |-> "idle", route |-> "none", caller |-> Anonymous,
             body |-> NoBody]
NoPosts == [k \in 1..MaxPosts |-> IdlePost]

Init ==
  /\ InitStore
  /\ route \in UserRoutes
  /\ resp = NoRequest
  /\ pages = NoPages
  /\ puts = NoPuts
  /\ analysis = NoAnalysis
  /\ generation = NoGeneration
  /\ posts = NoPosts

Next ==
  \/ GetLessonProgress(Users, {NoPaging})
  \/ PostLessonProgress(Users, LessonProgressPostLeanBodies)
  \/ PutLessonProgress(Users, LessonProgressPutLeanBodies)
  \/ DeleteLessonProgress(Users)
  \/ GetQuizAttempts(Users, {NoPaging})
  \/ PostQuizAttempts(Users, QuizAttemptPostLeanBodies)
  \/ PutQuizAttempts(Users, QuizAttemptPutLeanBodies)
  \/ DeleteQuizAttempts(Users)
  \/ GetRepositories(Users, {NoPaging})
  \/ PostRepositories(Users, RepositoryPostLeanBodies)
  \/ PutRepositories(Users, RepositoryPutLeanBodies)
  \/ DeleteRepositories(Users)
  \/ GetUserAchievements(Users, {NoPaging})
  \/ PostUserAchievements(Users, UserAchievementPostLeanBodies)
  \/ PutUserAchievements(Users, UserAchievementPutLeanBodies)
  \/ DeleteUserAchievements(Users)
  \/ GetUserProgress(Users, {NoPaging})
  \/ PostUserProgress(Users, UserProgressPostLeanBodies)
  \/ PutUserProgress(Users, UserProgressPutLeanBodies)
  \/ DeleteUserProgress(Users)

Spec == Init /\ [][Next]_vars

\* every caller, the anonymous one included, on every route, with every body
InitAll ==
  /\ InitStore
  /\ route \in Routes
  /\ resp = NoRequest
  /\ pages = NoPages
  /\ puts = NoPuts
  /\ analysis = NoAnalysis
  /\ generation = NoGeneration
  /\ posts = NoPosts

NextAll ==
  \/ GetLessonProgress(Callers, {NoPaging})
  \/ PostLessonProgress(Callers, LessonProgressBodies)
  \/ PutLessonProgress(Callers, LessonProgressBodies)
  \/ DeleteLessonProgress(Callers)
  \/ GetQuizAttempts(Callers, {NoPaging})
  \/ PostQuizAttempts(Callers, QuizAttemptPostBodies)
  \/ PutQuizAttempts(Callers, QuizAttemptPutBodies)
  \/ DeleteQuizAttempts(Callers)
  \/ GetRepositories(Callers, {NoPaging})
  \/ PostRepositories(Callers, RepositoryBodies)
  \/ PutRepositories(Callers, RepositoryBodies)
  \/ DeleteRepositories(Callers)
  \/ GetUserAchievements(Callers, {NoPaging})
  \/ PostUserAchievements(Callers, UserAchievementPostBodies)
  \/ PutUserAchievements(Callers, UserAchievementPutBodies)
  \/ DeleteUserAchievements(Callers)
  \/ GetUserProgress(Callers, {NoPaging})
  \/ PostUserProgress(Callers, UserProgressBodies)
  \/ PutUserProgress(Callers, UserProgressBodies)
  \/ DeleteUserProgress(Callers)
  \/ GetAchievements(Callers, {NoPaging})
  \/ PostAchievements(Callers, AchievementBodies)

SpecAll == InitAll /\ [][NextAll]_vars

\* the list endpoints: every route, with the limit and offset parameters
\* absent, in range, above 100, zero, negative and not a number
LimitParams ==
  { None, Some(<<"1">>), Some(<<"1", "0", "1">>), Some(<<"0">>),
    Some(<<"-", "1">>), Some(<<"x">>) }
OffsetParams == { None, Some(<<"1">>), Some(<<"-", "1">>) }
Pagings == [limit : LimitParams, offset : OffsetParams, userId : {None}]

InitList ==
  /\ InitStore
  /\ route \in Routes \cup ContentRoutes
  /\ resp = NoRequest
  /\ pages = NoPages
  /\ puts = NoPuts
  /\ analysis = NoAnalysis
  /\ generation = NoGeneration
  /\ posts = NoPosts

NextList ==
  \/ GetLessonProgress(Users, Pagings)
  \/ PostLessonProgress(Users, LessonProgressPostLeanBodies)
  \/ GetQuizAttempts(Users, Pagings)
  \/ PostQuizAttempts(Users, QuizAttemptPostLeanBodies)
  \/ GetRepositories(Users, Pagings)
  \/ PostRepositories(Users, RepositoryPostLeanBodies)
  \/ GetUserAchievements(Users, Pagings)
  \/ PostUserAchievements(Users, UserAchievementPostLeanBodies)
  \/ GetUserProgress(Users, Pagings)
  \/ PostUserProgress(Users, UserProgressPostLeanBodies)
  \/ GetAchievements(Users, Pagings)
  \/ GetLearningPaths(Users, Pagings)
  \/ GetLessons(Users, Pagings)
  \/ GetQuizzes(Users, Pagings)

SpecList == InitList /\ [][NextList]_vars

\* the bodies that parse and carry no userId
Plain(bodies) == {b \in bodies : b # NotJson /\ b.uid = None}

\* the lists of the user-owned routes, asked with and without ?userId=
UserIdQueries ==
  [limit : {None}, offset : {None},
   userId : {None} \cup {Some(u) : u \in Users}]

InitScope ==
  /\ InitStore
  /\ route \in UserRoutes
  /\ resp = NoRequest
  /\ pages = NoPages
  /\ puts = NoPuts
  /\ analysis = NoAnalysis
  /\ generation = NoGeneration
  /\ posts = NoPosts

NextScope ==
  \/ GetLessonProgress(Users, UserIdQueries)
  \/ PostLessonProgress(Users, Plain(LessonProgressPostLeanBodies))
  \/ GetQuizAttempts(Users, UserIdQueries)
  \/ PostQuizAttempts(Users, Plain(QuizAttemptPostLeanBodies))
  \/ GetRepositories(Users, UserIdQueries)
  \/ PostRepositories(Users, Plain(RepositoryPostLeanBodies))
  \/ GetUserAchievements(Users, UserIdQueries)
  \/ PostUserAchievements(Users, Plain(UserAchievementPostLeanBodies))
  \/ GetUserProgress(Users, UserIdQueries)
  \/ PostUserProgress(Users, Plain(UserProgressPostLeanBodies))

SpecScope == InitScope /\ [][NextScope]_vars

\* ------------------------------------------- POST handlers in two steps
\* A POST of /api/lessons or /api/quizzes awaits the store twice: the SELECT
\* that looks the parent up, then the INSERT. Other requests may be served
\* in between.
InFlight == {k \in 1..MaxPosts : posts[k].pc = "checked"}
CanBegin == Inserted + Cardinality(InFlight) < MaxRows

\* up to the parent lookup: a request that fails a test is answered at
\* once, one that passes them all waits for its insert
BeginPostLessons(callers, bodies) ==
  \E k \in 1..MaxPosts, caller \in callers, body \in bodies :
    LET r == LessonsPOST(caller, body) IN
    /\ OnRoute("lessons")
    /\ posts[k].pc = "idle"
    /\ CanBegin
    /\ IF r.status = 201
         THEN /\ posts' = [posts EXCEPT ![k] = [pc |-> "checked",
                              route |-> "lessons", caller |-> caller,
                              body |-> body]]
              /\ resp' = resp
         ELSE /\ posts' = posts
              /\ resp' = Served("POST", caller, <<>>, body, r)
    /\ UNCHANGED <<storeVars, nextId, route, clock, pages, puts, analysis,
                   generation>>

\* the insert: the store refuses a key that names no learning path, the
\* statement throws and the catch answers 500
FinishPostLessons ==
  \E k \in 1..MaxPosts :
    LET body == posts[k].body
        r == IF ForeignKeyHolds(learningPaths,
                                The(ParseIntOf(The(body.learningPathId))))
               THEN InsertLesson(body)
               ELSE Reply(500, None, {}, lessons)
    IN
    /\ posts[k].pc = "checked" /\ posts[k].route = "lessons"
    /\ lessons' = r.tbl
    /\ nextId' = Bump("lessons", r)
    /\ resp' = Served("POST", posts[k].caller, <<>>, body, r)
    /\ posts' = [posts EXCEPT ![k] = IdlePost]
    /\ UNCHANGED <<lessonProgress, quizAttempts, repositories,
                   userAchievements, userProgress, achievements,
                   learningPaths, quizzes, route, clock, pages, puts,
                   analysis, generation>>

BeginPostQuizzes(callers, bodies) ==
  \E k \in 1..MaxPosts, caller \in callers, body \in bodies :
    LET r == QuizzesPOST(caller, body) IN
    /\ OnRoute("quizzes")
    /\ posts[k].pc = "idle"
    /\ CanBegin
    /\ IF r.status = 201
         THEN /\ posts' = [posts EXCEPT ![k] = [pc |-> "checked",
                              route |-> "quizzes", caller |-> caller,
                              body |-> body]]
              /\ resp' = resp
         ELSE /\ posts' = posts
              /\ resp' = Served("POST", caller, <<>>, body, r)
    /\ UNCHANGED <<storeVars, nextId, route, clock, pages, puts, analysis,
                   generation>>

FinishPostQuizzes ==
  \E k \in 1..MaxPosts :
    LET body == posts[k].body
        r == IF ForeignKeyHolds(lessons, The(ParseIntOf(The(body.lessonId))))
               THEN InsertQuiz(body)
               ELSE Reply(500, None, {}, quizzes)
    IN
    /\ posts[k].pc = "checked" /\ posts[k].route = "quizzes"
    /\ quizzes' = r.tbl
    /\ nextId' = Bump("quizzes", r)
    /\ resp' = Served("POST", posts[k].caller, <<>>, body, r)
    /\ posts' = [posts EXCEPT ![k] = IdlePost]
    /\ UNCHANGED <<lessonProgress, quizAttempts, repositories,
                   userAchievements, userProgress, achievements,
                   learningPaths, lessons, route, clock, pages, puts,
                   analysis, generation>>

\* ------------------------------------------------- /api/github/analyze
\* how one fetch() of the source-hosting API ends: a response with a
\* status, or a rejected promise (the request never got an answer)
Answered(status) == [kind |-> "response", status |-> status]
Rejected == [kind |-> "rejected", status |-> 0]
\* a lookup the handler never sent has no outcome
Unsent == [kind |-> "unsent", status |-> 0]
FetchOutcomes == {Answered(200), Answered(404), Rejected}
\* the repo lookup has a second way to be refused
RepoOutcomes == FetchOutcomes \cup {Answered(403)}
\* response.ok
Ok(o) == o.kind = "response" /\ o.status \in 200..299

\* the five lookups of one analysis, in the order the handler issues them
Lookups == <<"repo", "languages", "readme", "commits", "tree">>
\* the githubUrl member of the body: absent, not a repository URL, a
\* repository URL
GithubUrls == {None, Some("not-a-repo-url"), Some("github.com/o/r")}
MatchesUrlPattern(url) == url = "github.com/o/r"

\* what the API holds for the repository
UpstreamReadme == <<"#", " ", "r">>
UpstreamCommits == <<"c1", "c2", "c3", "c4", "c5", "c6">>
\* commits.slice(0, 5)
FirstFive(commits) == SubSeq(commits, 1, Min(Len(commits), 5))

\* the answer of the handler; issued is the lookups it sent before it
\* answered, summary is TRUE when the body is the analysis
AnalyzeReply(status, issued, summary, readme, recentCommits) ==
  [status |-> status, issued |-> issued, summary |-> summary,
   readme |-> readme, recentCommits |-> recentCommits]
AnalyzeError(status, issued) == AnalyzeReply(status, issued, FALSE, <<>>, <<>>)

\* the repo lookup was answered without success: the error carries the
\* status of that answer
\* Variant of RepoLookupFailed: every such failure answers 500.
RepoLookupFailedFlat(o) == AnalyzeError(500, SubSeq(Lookups, 1, 1))
RepoLookupFailed(o) == AnalyzeError(o.status, SubSeq(Lookups, 1, 1))

\* POST: outcome[l] is how the fetch of lookup l ends if it is sent
AnalyzePOST(caller, githubUrl, outcome) ==
  LET user == getCurrentUser(caller) IN
  IF user = NULL THEN AnalyzeError(401, <<>>)
  ELSE IF githubUrl = None THEN AnalyzeError(400, <<>>)
  ELSE IF ~MatchesUrlPattern(The(githubUrl)) THEN AnalyzeError(400, <<>>)
  ELSE IF outcome["repo"] = Rejected THEN AnalyzeError(500, SubSeq(Lookups, 1, 1))
  ELSE IF ~Ok(outcome["repo"]) THEN RepoLookupFailed(outcome["repo"])
  ELSE IF outcome["languages"] = Rejected
    THEN AnalyzeError(500, SubSeq(Lookups, 1, 2))
  \* the README lookup alone sits in a try of its own
  ELSE IF outcome["commits"] = Rejected
    THEN AnalyzeError(500, SubSeq(Lookups, 1, 4))
  ELSE IF outcome["tree"] = Rejected
    THEN AnalyzeError(500, Lookups)
  ELSE AnalyzeReply(200, Lookups, TRUE,
                    IF Ok(outcome["readme"]) THEN UpstreamReadme ELSE <<>>,
                    IF Ok(outcome["commits"]) THEN FirstFive(UpstreamCommits)
                                              ELSE <<>>)

\* one analysis, from the request to the answer; the handler touches no
\* table
PostAnalyze(callers) ==
  \E caller \in callers, githubUrl \in GithubUrls, repo \in RepoOutcomes,
     rest \in [{Lookups[i] : i \in 2..Len(Lookups)} -> FetchOutcomes] :
    LET outcome == [l \in {Lookups[i] : i \in 1..Len(Lookups)} |->
                      IF l = "repo" THEN repo ELSE rest[l]] IN
    /\ OnRoute("github-analyze")
    /\ LET reply == AnalyzePOST(caller, githubUrl, outcome)
           sent == {reply.issued[i] : i \in 1..Len(reply.issued)}
       IN  analysis' = [asked |-> TRUE, caller |-> caller,
                        githubUrl |-> githubUrl,
                        outcome |-> [l \in DOMAIN outcome |->
                                       IF l \in sent THEN outcome[l] ELSE Unsent],
                        reply |-> reply]
    /\ UNCHANGED <<storeVars, nextId, route, clock, resp, pages, puts,
                   generation, posts>>

\* analyses and, in between, the caller saving and deleting repositories
InitAnalyze ==
  /\ InitStore
  /\ route = "any"
  /\ resp = NoRequest
  /\ pages = NoPages
  /\ puts = NoPuts
  /\ analysis = NoAnalysis
  /\ generation = NoGeneration
  /\ posts = NoPosts

NextAnalyze ==
  \/ PostAnalyze({"u1", Anonymous})
  \/ PostRepositories({"u1"}, Plain(RepositoryPostLeanBodies))

SpecAnalyze == InitAnalyze /\ [][NextAnalyze]_vars

\* ------------------------------------------------ /api/ai/generate-quiz
MaxTextLen == 3

\* the text the provider answers with, cut into tokens: the two brackets,
\* the comma, "q" a well-formed question object (question, options, the
\* index of the correct option, explanation), "n" another JSON value (a
\* number), "x" anything that is not JSON (prose)
TextTokens == {"[", "]", ",", "q", "n", "x"}
ProviderTexts == UNION {[1..n -> TextTokens] : n \in 0..MaxTextLen}

\* text.match(/\[[\s\S]*\]/): from the first "[" to the last "]" after it;
\* None when there is no such pair
JsonMatch(text) ==
  LET opens == {i \in 1..Len(text) : text[i] = "["}
      closes == {j \in 1..Len(text) : text[j] = "]"}
      pairs == {<<i, j>> \in opens \X closes : i < j}
  IN  IF pairs = {} THEN None
      ELSE LET first == CHOOSE i \in opens : \A k \in opens : i <= k
               last == CHOOSE j \in closes : \A k \in closes : k <= j
           IN  Some(SubSeq(text, first, last))

\* JSON grammar over the tokens: a value is q, n or an array; an array is
\* "[" values separated by "," "]"
RECURSIVE IsJsonValue(_)
RECURSIVE IsJsonElements(_)
IsJsonArray(t) ==
  /\ Len(t) >= 2 /\ t[1] = "[" /\ t[Len(t)] = "]"
  /\ (Len(t) = 2 \/ IsJsonElements(SubSeq(t, 2, Len(t) - 1)))
IsJsonValue(t) ==
  \/ Len(t) = 1 /\ t[1] \in {"q", "n"}
  \/ IsJsonArray(t)
IsJsonElements(t) ==
  \/ IsJsonValue(t)
  \/ \E k \in 1..(Len(t) - 2) :
       /\ t[k + 1] = ","
       /\ IsJsonValue(SubSeq(t, 1, k))
       /\ IsJsonElements(SubSeq(t, k + 2, Len(t)))

\* JSON.parse(jsonMatch[0]): None when it throws a SyntaxError, else the
\* top-level elements of the array (a nested array counts as one "n")
RECURSIVE TopLevel(_, _)
TopLevel(t, depth) ==
  IF t = <<>> THEN <<>>
  ELSE LET d == IF t[1] = "[" THEN depth + 1
                ELSE IF t[1] = "]" THEN depth - 1 ELSE depth
           here == IF depth = 0 /\ t[1] \in {"q", "n"} THEN <<t[1]>>
                   ELSE IF depth = 0 /\ t[1] = "[" THEN <<"n">> ELSE <<>>
       IN  here \o TopLevel(Tail(t), d)
JsonParse(t) ==
  IF IsJsonArray(t) THEN Some(TopLevel(SubSeq(t, 2, Len(t) - 1), 0)) ELSE None

\* the body of the request: code and topic each absent, '' or a text
GenerateQuizBodies ==
  {NotJson} \cup [uid : {None}, code : {None, Some("")},
                  topic : {None, Some("t")}]
\* how model.generateContent ends: it throws, or it answers with a text
ProviderThrows == [kind |-> "throws", text |-> <<>>]
ProviderAnswers(text) == [kind |-> "text", text |-> text]
\* the provider was not called
ProviderIdle == [kind |-> "idle", text |-> <<>>]

\* the answer: error is None on success, else the message of the error body
GenerateQuizReply(status, error, questions, called) ==
  [status |-> status, error |-> error, questions |-> questions,
   called |-> called]

\* POST
GenerateQuizPOST(caller, body, provider) ==
  LET user == getCurrentUser(caller)
      failed == Some("Failed to generate quiz: ")
  IN
  IF user = NULL
    THEN GenerateQuizReply(401, Some("Authentication required"), <<>>, FALSE)
  ELSE IF body = NotJson THEN GenerateQuizReply(500, failed, <<>>, FALSE)
  ELSE IF body.code \in {None, Some("")} /\ body.topic \in {None, Some("")}
    THEN GenerateQuizReply(400, Some("Either code or topic is required"),
                           <<>>, FALSE)
  ELSE IF provider = ProviderThrows
    THEN GenerateQuizReply(500, failed, <<>>, TRUE)
  ELSE LET jsonMatch == JsonMatch(provider.text) IN
    IF jsonMatch = None THEN GenerateQuizReply(500, failed, <<>>, TRUE)
    ELSE LET questions == JsonParse(The(jsonMatch)) IN
      IF questions = None THEN GenerateQuizReply(500, failed, <<>>, TRUE)
      ELSE GenerateQuizReply(200, None, The(questions), TRUE)

\* one quiz generation, from the request to the answer
PostGenerateQuiz(callers) ==
  \E caller \in callers, body \in GenerateQuizBodies,
     provider \in {ProviderThrows} \cup
                  {ProviderAnswers(t) : t \in ProviderTexts} :
    LET reply == GenerateQuizPOST(caller, body, provider) IN
    /\ generation' = [asked |-> TRUE, caller |-> caller, body |-> body,
                      provider |-> IF reply.called THEN provider
                                   ELSE ProviderIdle,
                      reply |-> reply]
    /\ UNCHANGED <<storeVars, nextId, route, clock, resp, pages, puts,
                   analysis, posts>>

InitGenerate ==
  /\ InitStore
  /\ route = "any"
  /\ resp = NoRequest
  /\ pages = NoPages
  /\ puts = NoPuts
  /\ analysis = NoAnalysis
  /\ generation = NoGeneration
  /\ posts = NoPosts

NextGenerate == PostGenerateQuiz({"u1", Anonymous})

SpecGenerate == InitGenerate /\ [][NextGenerate]_vars

\* the updates: every route that has a PUT, with the server clock moving
\* between the requests
Tick ==
  /\ clock < MaxTicks
  /\ clock' = clock + 1
  /\ UNCHANGED <<storeVars, nextId, route, resp, pages, puts, analysis, generation, posts>>

InitPut ==
  /\ InitStore
  /\ route \in Routes \cup ContentRoutes
  /\ resp = NoRequest
  /\ pages = NoPages
  /\ puts = NoPuts
  /\ analysis = NoAnalysis
  /\ generation = NoGeneration
  /\ posts = NoPosts

NextPut ==
  \/ Tick
  \/ PostLessonProgress({"u1"}, Plain(LessonProgressPostLeanBodies))
  \/ PutLessonProgress({"u1"}, Plain(LessonProgressPutLeanBodies))
  \/ PostQuizAttempts({"u1"}, Plain(QuizAttemptPostLeanBodies))
  \/ PutQuizAttempts({"u1"}, Plain(QuizAttemptPutLeanBodies))
  \/ PostRepositories({"u1"}, Plain(RepositoryPostLeanBodies))
  \/ PutRepositories({"u1"}, Plain(RepositoryPutLeanBodies))
  \/ PostUserAchievements({"u1"}, Plain(UserAchievementPostLeanBodies))
  \/ PutUserAchievements({"u1"}, Plain(UserAchievementPutLeanBodies))
  \/ PostUserProgress({"u1"}, Plain(UserProgressPostLeanBodies))
  \/ PutUserProgress({"u1"}, Plain(UserProgressPutLeanBodies))
  \/ PutAchievements({"u1"}, AchievementBodies)
  \/ PutLearningPaths({"u1"}, LearningPathBodies)
  \/ PutLessons({"u1"}, LessonBodies)
  \/ PutQuizzes({"u1"}, QuizBodies)

SpecPut == InitPut /\ [][NextPut]_vars

\* the content routes together with the two routes whose rows reference
\* content: one authenticated caller creates, re-parents and deletes
InitRef ==
  /\ InitStore
  /\ route = "any"
  /\ resp = NoRequest
  /\ pages = NoPages
  /\ puts = NoPuts
  /\ analysis = NoAnalysis
  /\ generation = NoGeneration
  /\ posts = NoPosts

RefLessonProgressBodies ==
  { [uid |-> None, lessonId |-> Some(l), status |-> Some(<<"completed">>),
     startedAt |-> None, completedAt |-> None] : l \in {1} }
RefQuizAttemptBodies ==
  { [uid |-> None, quizId |-> Some(q), userAnswer |-> Some(<<"A">>),
     isCorrect |-> Some(TRUE), attemptedAt |-> None] : q \in {1} }
RefLearningPathBodies ==
  { b \in LearningPathBodies : b # NotJson /\ b.title # None }
RefLessonPostBodies ==
  { b \in LessonBodies \ {NotJson} :
      b.learningPathId \in {Some(Num(1)), Some(Num(2))} }
RefQuizPostBodies ==
  { b \in QuizBodies \ {NotJson} : b.lessonId \in {Some(Num(1)), Some(Num(3))} }
\* a PUT that moves the lesson to another learning path, the quiz to
\* another lesson, and changes nothing else
RefLessonPutBodies ==
  { [uid |-> None, learningPathId |-> Some(Num(p)), title |-> None,
     description |-> None, content |-> None, difficulty |-> None,
     xpReward |-> None, orderIndex |-> None, estimatedMinutes |-> None]
    : p \in {2} }
RefQuizPutBodies ==
  { [uid |-> None, lessonId |-> Some(l), question |-> None,
     options |-> None, correctAnswer |-> None,
     explanation |-> None, difficulty |-> None, xpReward |-> None]
    : l \in {Str(<<"2", "x">>)} }

NextRef ==
  \/ PostLearningPaths({"u1"}, RefLearningPathBodies)
  \/ DeleteLearningPaths({"u1"})
  \/ PostLessons({"u1"}, RefLessonPostBodies)
  \/ PutLessons({"u1"}, RefLessonPutBodies)
  \/ DeleteLessons({"u1"})
  \/ PostQuizzes({"u1"}, RefQuizPostBodies)
  \/ PutQuizzes({"u1"}, RefQuizPutBodies)
  \/ DeleteQuizzes({"u1"})
  \/ PostLessonProgress({"u1"}, RefLessonProgressBodies)
  \/ PostQuizAttempts({"u1"}, RefQuizAttemptBodies)

SpecRef == InitRef /\ [][NextRef]_vars

\* the two-step POSTs while learning paths and lessons are deleted
InitRace ==
  /\ InitStore
  /\ route = "any"
  /\ resp = NoRequest
  /\ pages = NoPages
  /\ puts = NoPuts
  /\ analysis = NoAnalysis
  /\ generation = NoGeneration
  /\ posts = NoPosts

NextRace ==
  \/ BeginPostLessons({"u1"}, RefLessonPostBodies)
  \/ FinishPostLessons
  \/ BeginPostQuizzes({"u1"}, RefQuizPostBodies)
  \/ FinishPostQuizzes
  \/ DeleteLearningPaths({"u1"})
  \/ DeleteLessons({"u1"})

SpecRace == InitRace /\ [][NextRace]_vars

\* ------------------------------------------------- the lesson page (UI)
\* LessonPage: fetchLesson loads the lesson into the component state; the
\* "Complete lesson" button runs handleCompleteLesson, two fetches in a row.
\* lp and up hold the id of the row each fetch created, for the properties.

\* what can go wrong with one fetch: nothing; the handler's db call throws
\* and its catch answers 500 (fetch resolves all the same); the request
\* never gets to the server and fetch rejects
Faults == {"none", "db", "network"}

\* the response of a handler whose insert threw
DbFault(fault, r, tbl) ==
  IF fault = "db" /\ r.status = 201 THEN Reply(500, None, {}, tbl) ELSE r

CompletedBody(lesson) ==
  [uid |-> None, lessonId |-> Some(lesson.id), status |-> Some(<<"completed">>),
   startedAt |-> None, completedAt |-> Some(Now)]

XpBody(lesson) ==
  [uid |-> None, totalXp |-> Some(lesson.xpReward), level |-> None,
   streakDays |-> None, lastActiveDate |-> None]

\* the id of the row a response created
Created(r) == IF r.status = 201 THEN {x.id : x \in r.rows} ELSE None

OpenLesson ==
  \E p \in 1..MaxPages, u \in Users, l \in lessons :
    /\ pages[p].pc = "closed"
    /\ pages' = [pages EXCEPT ![p] = [pc |-> "viewing", user |-> u,
                                      lesson |-> Some(l), lp |-> None,
                                      up |-> None]]
    /\ UNCHANGED <<storeVars, nextId, route, clock, resp, puts, analysis, generation, posts>>

\* handleCompleteLesson up to its first await: POST /api/lesson-progress
CompleteLessonProgress(faults) ==
  \E p \in 1..MaxPages, fault \in faults :
    LET pg == pages[p]
        body == CompletedBody(The(pg.lesson))
        r == DbFault(fault, LessonProgressPOST(pg.user, body), lessonProgress)
    IN  /\ pg.pc = "viewing"
        /\ IF fault = "network"
             THEN /\ pages' = [pages EXCEPT ![p].pc = "failed"]
                  /\ UNCHANGED <<lessonProgress, nextId, resp>>
             ELSE /\ lessonProgress' = r.tbl
                  /\ nextId' = Bump("lesson_progress", r)
                  /\ resp' = Served("POST", pg.user, <<>>, body, r)
                  /\ pages' = [pages EXCEPT ![p].pc = "xp",
                                            ![p].lp = Created(r)]
        /\ UNCHANGED <<quizAttempts, repositories, userAchievements,
                       userProgress, achievements, learningPaths, lessons, quizzes,
                       route, clock, puts, analysis, generation, posts>>

\* handleCompleteLesson after the first await: POST /api/user-progress,
\* then setLessonCompleted(true)
CompleteLessonXp(faults) ==
  \E p \in 1..MaxPages, fault \in faults :
    LET pg == pages[p]
        body == XpBody(The(pg.lesson))
        r == DbFault(fault, UserProgressPOST(pg.user, body), userProgress)
    IN  /\ pg.pc = "xp"
        /\ IF fault = "network"
             THEN /\ pages' = [pages EXCEPT ![p].pc = "failed"]
                  /\ UNCHANGED <<userProgress, nextId, resp>>
             ELSE /\ userProgress' = r.tbl
                  /\ nextId' = Bump("user_progress", r)
                  /\ resp' = Served("POST", pg.user, <<>>, body, r)
                  /\ pages' = [pages EXCEPT ![p].pc = "done",
                                            ![p].up = Created(r)]
        /\ UNCHANGED <<lessonProgress, quizAttempts, repositories,
                       userAchievements, achievements, learningPaths, lessons, quizzes,
                       route, clock, puts, analysis, generation, posts>>

InitXp ==
  /\ InitStore
  /\ route = "none"
  /\ resp = NoRequest
  /\ pages = NoPages
  /\ puts = NoPuts
  /\ analysis = NoAnalysis
  /\ generation = NoGeneration
  /\ posts = NoPosts

\* users completing lessons on their pages, every fetch liable to fail
NextXp ==
  \/ OpenLesson
  \/ CompleteLessonProgress(Faults)
  \/ CompleteLessonXp(Faults)

SpecXp == InitXp /\ [][NextXp]_vars

\* ------------------------------ PUT /api/user-progress, await by await
\* the handler up to `await db.select()...limit(1)`: authentication, ?id=,
\* the body, and the lookup of the caller's row
XpPutBodies ==
  { [uid |-> None, totalXp |-> Some(x), level |-> None,
     streakDays |-> None, lastActiveDate |-> None] : x \in {100, 150} }

UserProgressPutLookup ==
  \E k \in 1..MaxPuts, caller \in Users, idParam \in IdParams,
     body \in XpPutBodies :
    LET r == UserProgressPUT(caller, idParam, body) IN
    /\ puts[k].pc = "idle"
    /\ IF r.status = 200
         THEN /\ puts' = [puts EXCEPT ![k] =
                    [pc |-> "found", caller |-> caller,
                     idParam |-> idParam, body |-> body,
                     existing |-> OwnRow(userProgress,
                                         The(ParseInt(idParam)), caller)]]
              /\ UNCHANGED resp
         ELSE /\ puts' = [puts EXCEPT ![k].pc = "done"]
              /\ resp' = Served("PUT", caller, idParam, body, r)
    /\ UNCHANGED <<storeVars, nextId, route, clock, pages, analysis, generation, posts>>

\* the rest of the handler: `await db.update().set(updates).where(...)`
UserProgressPutUpdate ==
  \E k \in 1..MaxPuts :
    LET pt == puts[k]
        r == UserProgressPUT(pt.caller, pt.idParam, pt.body)
    IN  /\ pt.pc = "found"
        /\ userProgress' = r.tbl
        /\ resp' = Served("PUT", pt.caller, pt.idParam, pt.body, r)
        /\ puts' = [puts EXCEPT ![k].pc = IF r.status = 200 THEN "updated"
                                                           ELSE "done"]
        /\ UNCHANGED <<lessonProgress, quizAttempts, repositories,
                       userAchievements, achievements, learningPaths, lessons, quizzes,
                       nextId, route, clock, pages, analysis, generation, posts>>

\* lesson completions and XP updates of the same users, interleaved; no
\* fetch fails
NextConc ==
  \/ OpenLesson
  \/ CompleteLessonProgress({"none"})
  \/ CompleteLessonXp({"none"})
  \/ UserProgressPutLookup
  \/ UserProgressPutUpdate

SpecConc == InitXp /\ [][NextConc]_vars

\* ------------------------------------------------------------ properties
\* the table behind the route of this behaviour
RouteTable ==
  CASE route = "lesson-progress" -> lessonProgress
    [] route = "quiz-attempts" -> quizAttempts
    [] route = "repositories" -> repositories
    [] route = "user-achievements" -> userAchievements
    [] route = "user-progress" -> userProgress
    [] route = "achievements" -> achievements

\* the row the last request named with ?id=, when another user owns it
ForeignTarget(rq, tbl) ==
  IF rq.caller \in Users /\ rq.id # NaN
    THEN {r \in tbl : r.id = The(rq.id) /\ r.userId # rq.caller}
    ELSE {}

\* C1: a GET by id issued by user A for a LessonProgress, QuizAttempt,
\* Repository or UserProgress record owned by another user B is answered
\* with 403 or 404 and the response holds no record of B.
CrossUserGetDenied ==
  (/\ route \in {"lesson-progress", "quiz-attempts", "repositories",
                 "user-progress"}
   /\ resp.method = "GET"
   /\ ForeignTarget(resp, RouteTable) # {})
  => /\ resp.status \in {403, 404}
     /\ \A r \in resp.rows : r.userId = resp.caller

\* u1 holds a row, u2 holds a row, and u1 asked for u2's row by id
CrossUserGetWitness ==
  /\ route = "repositories"
  /\ resp.method = "GET" /\ resp.caller = "u1" /\ resp.status = 404
  /\ ForeignTarget(resp, repositories) # {}
  /\ \E r \in repositories : r.userId = "u1"

\* C2 as stated: a PUT or DELETE by A naming the id of a record owned by B
\* is answered with 404 and leaves every record unchanged.
CrossUserWriteIs404 ==
  [][ (/\ route \in UserRoutes
       /\ resp'.method \in {"PUT", "DELETE"}
       /\ ForeignTarget(resp', RouteTable) # {})
      => (resp'.status = 404 /\ storeVars' = storeVars) ]_vars

\* C2 amended: such a PUT or DELETE never succeeds and changes no record; it
\* is answered with 404, unless it is a PUT whose body is turned down before
\* the lookup: 400 USER_ID_NOT_ALLOWED for a body with an identity member,
\* 500 for a body that is not JSON.
CrossUserWriteRejected ==
  [][ (/\ route \in UserRoutes
       /\ resp'.method \in {"PUT", "DELETE"}
       /\ ForeignTarget(resp', RouteTable) # {})
      => /\ storeVars' = storeVars
         /\ \/ resp'.status = 404
            \/ /\ resp'.method = "PUT" /\ resp'.uid
               /\ resp'.status = 400
               /\ resp'.code = Some("USER_ID_NOT_ALLOWED")
            \/ /\ resp'.method = "PUT" /\ ~resp'.json
               /\ resp'.status = 500 ]_vars

\* u1 holds a row and asked to delete the row of u2, which is still there
CrossUserWriteWitness ==
  /\ route = "lesson-progress"
  /\ resp.method = "DELETE" /\ resp.caller = "u1" /\ resp.status = 404
  /\ ForeignTarget(resp, lessonProgress) # {}
  /\ \E r \in lessonProgress : r.userId = "u1"

\* C3: a POST or PUT on a user-owned entity whose body carries userId or
\* user_id is answered with an error and creates or modifies no record.
IdentityInBodyRejected ==
  [][ (/\ route \in UserRoutes
       /\ resp'.method \in {"POST", "PUT"}
       /\ resp'.uid)
      => /\ resp'.status >= 400
         /\ storeVars' = storeVars
         /\ nextId' = nextId ]_vars

\* an authenticated user posted a body with an identity member next to
\* otherwise valid members, and was turned down
IdentityInBodyWitness ==
  /\ route = "user-progress"
  /\ resp.method = "POST" /\ resp.caller = "u1" /\ resp.uid
  /\ resp.status = 400 /\ resp.code = Some("USER_ID_NOT_ALLOWED")
  /\ userProgress = {}

\* C4: a request without an authenticated identity is answered with 401 and
\* creates, modifies or deletes no record.
AnonymousGets401 ==
  [][ (resp'.method # "none" /\ resp'.caller = Anonymous)
      => /\ resp'.status = 401
         /\ storeVars' = storeVars ]_vars

\* C5: the correctness flag of every stored quiz attempt says whether its
\* stored answer is the correct answer of its quiz.
CorrectnessFlagComputed ==
  \A a \in quizAttempts : \A q \in quizzes :
    q.id = a.quizId => (a.isCorrect <=> (a.userAnswer = q.correctAnswer))

\* C10: every stored user_progress row has level = floor(totalXp / 100) + 1.
LevelFollowsXp ==
  \A r \in userProgress : r.level = (r.totalXp \div 100) + 1

\* the XP the rows of user_progress credit to a user
TotalXp(tbl, u) ==
  LET mine == {r \in tbl : r.userId = u}
  IN  SumOver(mine, [r \in mine |-> r.totalXp])

PagesOf(u) == {p \in 1..MaxPages : pages[p].user = u}

\* a page whose handleCompleteLesson ran to setLessonCompleted(true) with
\* both POSTs answered 201
Completed(p) ==
  pages[p].pc = "done" /\ pages[p].lp # None /\ pages[p].up # None

\* C6: after a user has completed distinct lessons whose rewards sum to S,
\* GET /api/user-progress shows a row with totalXp = S and
\* level = floor(S / 100) + 1.
LessonXpAccumulates ==
  \A u \in Users :
    LET mine == PagesOf(u)
        S == SumOver(mine, [p \in mine |-> The(pages[p].lesson).xpReward])
    IN  (/\ mine # {}
         /\ \A p \in mine : Completed(p)
         /\ \A p, q \in mine : p # q => pages[p].lesson # pages[q].lesson)
        => \E r \in UserProgressGET(u, <<>>, NoPaging).rows :
             r.totalXp = S /\ r.level = (S \div 100) + 1

\* C7: the XP POST of a completion of a lesson the same user has already
\* completed leaves the user's total XP as it was.
NoDoubleCredit ==
  [][ \A p, q \in 1..MaxPages :
        (/\ p # q
         /\ Completed(q)
         /\ pages[p].user = pages[q].user
         /\ pages[p].lesson = pages[q].lesson
         /\ pages[p].pc = "xp" /\ pages'[p].pc = "done")
        => TotalXp(userProgress', pages[p].user)
             = TotalXp(userProgress, pages[p].user) ]_vars

\* C8: once handleCompleteLesson has finished, the lesson_progress row of
\* the attempt is there and completed exactly when its XP row is there.
CompletionAtomic ==
  \A p \in 1..MaxPages :
    pages[p].pc \in {"done", "failed"}
    => ((\E r \in lessonProgress :
           r.id \in pages[p].lp /\ r.status = <<"completed">>)
        <=> (\E r \in userProgress : r.id \in pages[p].up))

\* the XP a PUT handler adds: the total it writes less the total of the row
\* it looked up
PutReward(k) == The(puts[k].body.totalXp) - The(puts[k].existing).totalXp

\* C9: when no completion and no XP update of a user is in flight, the
\* user's total XP is the initial total (0) plus the reward of every
\* completion and of every update that went through.
NoLostXpUpdate ==
  \A u \in Users :
    LET done == {p \in PagesOf(u) : pages[p].pc = "done"}
        written == {k \in 1..MaxPuts :
                      puts[k].caller = u /\ puts[k].pc = "updated"}
    IN  (/\ \A p \in PagesOf(u) : pages[p].pc # "xp"
         /\ \A k \in 1..MaxPuts : puts[k].caller = u => puts[k].pc # "found")
        => TotalXp(userProgress, u)
             = SumOver(done, [p \in done |-> The(pages[p].lesson).xpReward])
               + SumOver(written, [k \in written |-> PutReward(k)])

\* C11: every user owns at most one user_progress row.
OneProgressRowPerUser ==
  \A r1, r2 \in userProgress : r1.userId = r2.userId => r1 = r2

\* C12: there is at most one lesson_progress row per (user, lesson).
OneProgressRowPerLesson ==
  \A r1, r2 \in lessonProgress :
    (r1.userId = r2.userId /\ r1.lessonId = r2.lessonId) => r1 = r2

\* C13: there is at most one user_achievements row per (user, achievement).
OneUnlockPerAchievement ==
  \A r1, r2 \in userAchievements :
    (r1.userId = r2.userId /\ r1.achievementId = r2.achievementId) => r1 = r2


\* a POST body of /api/lessons whose learningPathId reads as an id, and one
\* that names every member the handler requires
NamesLearningPath(b) ==
  /\ b.learningPathId # None
  /\ ~Falsy(The(b.learningPathId))
  /\ ParseIntOf(The(b.learningPathId)) # NaN
CompleteLessonBody(b) ==
  /\ b.title # None /\ Trim(The(b.title)) # <<>>
  /\ b.difficulty # None /\ Trim(The(b.difficulty)) # <<>>
  /\ b.xpReward # None /\ b.orderIndex # None /\ b.estimatedMinutes # None
\* the same for a POST body of /api/quizzes and its lessonId
NamesLesson(b) ==
  /\ b.lessonId # None
  /\ ~Falsy(The(b.lessonId))
  /\ ParseIntOf(The(b.lessonId)) # NaN
CompleteQuizBody(b) ==
  /\ b.question # None /\ Trim(The(b.question)) # <<>>
  /\ b.options # None /\ The(b.options) # ""
  /\ b.correctAnswer # None /\ Trim(The(b.correctAnswer)) # <<>>
  /\ b.difficulty # None /\ Trim(The(b.difficulty)) # <<>>
  /\ b.xpReward # None /\ IsNum(The(b.xpReward))

\* C15: in every state of the store, a POST /api/lessons whose learningPathId
\* names no learning path, and a POST /api/quizzes whose lessonId names no
\* lesson, is answered 400 and leaves the table as it is; when the rest of
\* the body is complete the code is the one of the handler's own lookup
\* (INVALID_LEARNING_PATH, LESSON_NOT_FOUND).
DanglingReferenceRejected ==
  /\ \A b \in LessonBodies \ {NotJson} :
        (NamesLearningPath(b)
           /\ ~ForeignKeyHolds(learningPaths, The(ParseIntOf(The(b.learningPathId)))))
        => LET r == LessonsPOST("u1", b) IN
           /\ r.status = 400
           /\ r.tbl = lessons
           /\ CompleteLessonBody(b) => r.code = Some("INVALID_LEARNING_PATH")
  /\ \A b \in QuizBodies \ {NotJson} :
        (NamesLesson(b)
           /\ ~ForeignKeyHolds(lessons, The(ParseIntOf(The(b.lessonId)))))
        => LET r == QuizzesPOST("u1", b) IN
           /\ r.status = 400
           /\ r.tbl = quizzes
           /\ CompleteQuizBody(b) => r.code = Some("LESSON_NOT_FOUND")

\* a lesson was posted for a learning path that had been deleted, and the
\* handler answered with its lookup's error
DanglingReferenceWitness ==
  /\ resp.method = "POST"
  /\ resp.status = 400
  /\ resp.code = Some("INVALID_LEARNING_PATH")
  /\ RowById(learningPaths, 1) = {}
  /\ lessons = {}

\* C16: every lesson references a learning path of the store, every quiz a
\* lesson, every lesson_progress row a lesson and every quiz_attempts row a
\* quiz: no state holds an orphan, the one right after a delete included.
NoOrphans ==
  /\ \A l \in lessons : ForeignKeyHolds(learningPaths, l.learningPathId)
  /\ \A q \in quizzes : ForeignKeyHolds(lessons, q.lessonId)
  /\ \A lp \in lessonProgress : ForeignKeyHolds(lessons, lp.lessonId)
  /\ \A qa \in quizAttempts : ForeignKeyHolds(quizzes, qa.quizId)

\* a learning path was deleted after progress and an attempt had been
\* recorded under it, and its lessons, quizzes, progress and attempts are gone
CascadeWitness ==
  /\ resp.method = "DELETE"
  /\ resp.status = 200
  /\ RowById(learningPaths, 1) = {}
  /\ nextId["lesson_progress"] > InitNextId["lesson_progress"]
  /\ nextId["quiz_attempts"] > InitNextId["quiz_attempts"]
  /\ lessons = {} /\ quizzes = {} /\ lessonProgress = {} /\ quizAttempts = {}

\* the answer to GET without ?id=: the list branch ran its query
ListServed == resp.method = "GET" /\ resp.id = None /\ resp.status = 200

\* C17: on every list endpoint the limit handed to the query is a number of
\* 1..100, it is 10 when ?limit= is absent and 100 when ?limit= is above
\* 100, and the answer holds no more rows than that.
ListLimitClamped ==
  ListServed =>
    LET limit == ListLimit(resp.paging)
        asked == IF resp.paging.limit = None THEN NaN
                 ELSE ParseInt(The(resp.paging.limit))
    IN  /\ limit # NaN
        /\ The(limit) \in 1..100
        /\ resp.paging.limit = None => The(limit) = 10
        /\ (asked # NaN /\ The(asked) > 100) => The(limit) = 100
        /\ Cardinality(resp.rows) <= The(limit)

\* C18: on every list endpoint the offset handed to the query is never
\* negative: a negative ?offset= is refused or becomes 0.
ListOffsetNonNegative ==
  ListServed =>
    LET offset == ListOffset(resp.paging)
    IN  offset # NaN /\ The(offset) >= 0

\* identifiers that are not positive integers: zero, a negative number,
\* digits followed by other characters
MalformedIds == { <<"0">>, <<"-", "1">>, <<"1", "x">> }
PositiveInteger(s) ==
  /\ s # <<>>
  /\ \A i \in 1..Len(s) : IsDigit(s[i])
  /\ The(ParseInt(s)) > 0
PositiveIntegerMember(v) ==
  IF IsNum(v) THEN v.num > 0 ELSE PositiveInteger(v.str)

\* the status each handler that takes ?id= answers for idParam
IdStatuses(idParam) ==
  { LessonProgressGET("u1", idParam, NoPaging).status,
    QuizAttemptsGET("u1", idParam, NoPaging).status,
    RepositoriesGET("u1", idParam, NoPaging).status,
    UserAchievementsGET("u1", idParam, NoPaging).status,
    UserProgressGET("u1", idParam, NoPaging).status,
    AchievementsGET("u1", idParam, NoPaging).status,
    LearningPathsGET("u1", idParam, NoPaging).status,
    LessonsGET("u1", idParam, NoPaging).status,
    QuizzesGET("u1", idParam, NoPaging).status,
    LessonProgressDELETE("u1", idParam).status,
    QuizAttemptsDELETE("u1", idParam).status,
    RepositoriesDELETE("u1", idParam).status,
    UserAchievementsDELETE("u1", idParam).status,
    UserProgressDELETE("u1", idParam).status,
    AchievementsDELETE("u1", idParam).status,
    LearningPathsDELETE("u1", idParam).status,
    LessonsDELETE("u1", idParam).status,
    QuizzesDELETE("u1", idParam).status } \cup
  { LessonsPUT("u1", idParam, b).status : b \in LessonBodies } \cup
  { QuizzesPUT("u1", idParam, b).status : b \in QuizBodies } \cup
  { LearningPathsPUT("u1", idParam, b).status : b \in LearningPathBodies } \cup
  { AchievementsPUT("u1", idParam, b).status : b \in AchievementBodies }

\* C19: an ?id= that is not a positive integer is answered 400 by every
\* handler that takes one, and so is a POST whose learningPathId or
\* lessonId is not a positive integer; nothing is looked up or written.
IdsValidated ==
  /\ \A idParam \in MalformedIds : IdStatuses(idParam) = {400}
  /\ \A b \in LessonBodies \ {NotJson} :
        (b.learningPathId # None /\ ~PositiveIntegerMember(The(b.learningPathId)))
        => LET r == LessonsPOST("u1", b) IN r.status = 400 /\ r.tbl = lessons
  /\ \A b \in QuizBodies \ {NotJson} :
        (b.lessonId # None /\ ~PositiveIntegerMember(The(b.lessonId)))
        => LET r == QuizzesPOST("u1", b) IN r.status = 400 /\ r.tbl = quizzes

\* the answer r of a PUT ?id=idParam with body b on table tbl, when it is a
\* success: the rows other than the target are the same, and every column
\* of the target that b does not carry, the columns of stamped apart,
\* holds what it held
FrameKept(tbl, r, idParam, b, stamped) ==
  r.status = 200 =>
    LET id == The(ParseInt(idParam))
        old == RowById(tbl, id)
        new == RowById(r.tbl, id)
    IN  /\ {x \in r.tbl : x.id # id} = {x \in tbl : x.id # id}
        /\ Cardinality(new) = 1
        /\ \A f \in DOMAIN The(old) \ stamped :
              (f \notin DOMAIN b \/ b[f] = None) => The(new)[f] = The(old)[f]

\* the same for every body of the PUT handler of the route the requests go
\* to, on the current store
FramesKept(stamped) ==
  \A u \in {"u1"}, idParam \in IdParams \ {<<>>} :
    /\ route = "lesson-progress" =>
          \A b \in LessonProgressBodies \ {NotJson} :
            FrameKept(lessonProgress, LessonProgressPUT(u, idParam, b), idParam, b, stamped)
    /\ route = "user-progress" =>
          \A b \in UserProgressBodies \ {NotJson} :
            FrameKept(userProgress, UserProgressPUT(u, idParam, b), idParam, b, stamped)
    /\ route = "quiz-attempts" =>
          \A b \in QuizAttemptPutBodies \ {NotJson} :
            FrameKept(quizAttempts, QuizAttemptsPUT(u, idParam, b), idParam, b, {})
    /\ route = "repositories" =>
          \A b \in RepositoryBodies \ {NotJson} :
            FrameKept(repositories, RepositoriesPUT(u, idParam, b), idParam, b, {})
    /\ route = "user-achievements" =>
          \A b \in UserAchievementPutBodies \ {NotJson} :
            FrameKept(userAchievements, UserAchievementsPUT(u, idParam, b), idParam, b, {})
    /\ route = "achievements" =>
          \A b \in AchievementBodies \ {NotJson} :
            FrameKept(achievements, AchievementsPUT(u, idParam, b), idParam, b, {})
    /\ route = "learning-paths" =>
          \A b \in LearningPathBodies \ {NotJson} :
            FrameKept(learningPaths, LearningPathsPUT(u, idParam, b), idParam, b, {})
    /\ route = "lessons" =>
          \A b \in LessonBodies \ {NotJson} :
            FrameKept(lessons, LessonsPUT(u, idParam, b), idParam, b, {})
    /\ route = "quizzes" =>
          \A b \in QuizBodies \ {NotJson} :
            FrameKept(quizzes, QuizzesPUT(u, idParam, b), idParam, b, {})

\* C20 (as stated): a successful PUT leaves every column of the target that
\* the body does not carry, and every other row, as it was.
PartialUpdateFrame == FramesKept({})

\* C20 (amended): the same, except that a successful PUT on lesson_progress
\* and on user_progress also sets updatedAt, to the server's time.
PartialUpdateFrameButUpdatedAt ==
  /\ FramesKept({"updatedAt"})
  /\ \A u \in {"u1"}, idParam \in IdParams \ {<<>>} :
        /\ route = "lesson-progress" =>
              \A b \in LessonProgressBodies \ {NotJson} :
                LET r == LessonProgressPUT(u, idParam, b) IN
                r.status = 200 => \A x \in r.rows : x.updatedAt = Now
        /\ route = "user-progress" =>
              \A b \in UserProgressBodies \ {NotJson} :
                LET r == UserProgressPUT(u, idParam, b) IN
                r.status = 200 => \A x \in r.rows : x.updatedAt = Now

\* a PUT on user_progress succeeded after the clock had moved: the row's
\* updatedAt is no longer the time of its creation
PartialUpdateWitness ==
  /\ resp.method = "PUT"
  /\ resp.status = 200
  /\ \E x \in userProgress : x.updatedAt # x.createdAt

\* the bodies that carry none of the members the handler reads
Empty(bodies) ==
  {b \in bodies \ {NotJson} : \A f \in DOMAIN b : b[f] = None}

\* the answer r of a PUT ?id=idParam on table tbl, the row being there: a
\* success that returns the row and leaves the table as it is
NoOpPut(tbl, r, idParam) ==
  LET existing == RowById(tbl, The(ParseInt(idParam)))
  IN  existing # {} => (r.status = 200 /\ r.rows = existing /\ r.tbl = tbl)

\* C21: on every route a PUT on an existing record with a body that carries
\* no recognized member succeeds, returns the record and changes no column.
EmptyPutIsNoOp ==
  \A idParam \in {i \in IdParams : ParseInt(i) # NaN} :
    /\ route = "lesson-progress" =>
          \A b \in Empty(LessonProgressBodies) :
            NoOpPut(lessonProgress, LessonProgressPUT("u1", idParam, b), idParam)
    /\ route = "user-progress" =>
          \A b \in Empty(UserProgressBodies) :
            NoOpPut(userProgress, UserProgressPUT("u1", idParam, b), idParam)
    /\ route = "quiz-attempts" =>
          \A b \in Empty(QuizAttemptPutBodies) :
            NoOpPut(quizAttempts, QuizAttemptsPUT("u1", idParam, b), idParam)
    /\ route = "repositories" =>
          \A b \in Empty(RepositoryBodies) :
            NoOpPut(repositories, RepositoriesPUT("u1", idParam, b), idParam)
    /\ route = "user-achievements" =>
          \A b \in Empty(UserAchievementPutBodies) :
            NoOpPut(userAchievements, UserAchievementsPUT("u1", idParam, b), idParam)
    /\ route = "achievements" =>
          \A b \in Empty(AchievementBodies) :
            NoOpPut(achievements, AchievementsPUT("u1", idParam, b), idParam)
    /\ route = "learning-paths" =>
          \A b \in Empty(LearningPathBodies) :
            NoOpPut(learningPaths, LearningPathsPUT("u1", idParam, b), idParam)
    /\ route = "lessons" =>
          \A b \in Empty(LessonBodies) :
            NoOpPut(lessons, LessonsPUT("u1", idParam, b), idParam)
    /\ route = "quizzes" =>
          \A b \in Empty(QuizBodies) :
            NoOpPut(quizzes, QuizzesPUT("u1", idParam, b), idParam)

\* the last analysis got as far as the lookups and its repo lookup succeeded
CoreLookupSucceeded ==
  /\ analysis.asked
  /\ analysis.caller \in Users
  /\ analysis.githubUrl # None /\ MatchesUrlPattern(The(analysis.githubUrl))
  /\ Ok(analysis.outcome["repo"])

\* C22: when the repo lookup succeeds (and neither the languages nor the tree
\* lookup is rejected), the analysis answers 200 with the summary however the README
\* and the commits lookups end, with readme '' when the README lookup
\* failed and recentCommits [] when the commits lookup failed.
OptionalLookupsTolerated ==
  (CoreLookupSucceeded /\ analysis.outcome["languages"] # Rejected
                       /\ analysis.outcome["tree"] # Rejected)
  => /\ analysis.reply.status = 200
     /\ analysis.reply.summary
     /\ ~Ok(analysis.outcome["readme"]) => analysis.reply.readme = <<>>
     /\ ~Ok(analysis.outcome["commits"]) => analysis.reply.recentCommits = <<>>

\* C23: when the repo lookup fails the analysis answers with an error whose
\* status is the one the API answered (500 when the fetch was rejected), no
\* other lookup has been sent, and the repositories table is what it was.
CoreLookupFatal ==
  [][ (analysis' # analysis
       /\ analysis'.caller \in Users
       /\ analysis'.githubUrl # None
       /\ MatchesUrlPattern(The(analysis'.githubUrl))
       /\ ~Ok(analysis'.outcome["repo"]))
      => /\ ~analysis'.reply.summary
         /\ analysis'.reply.status =
              IF analysis'.outcome["repo"] = Rejected THEN 500
              ELSE analysis'.outcome["repo"].status
         /\ analysis'.reply.issued = <<"repo">>
         /\ repositories' = repositories ]_vars

\* the API answered 404 to the repo lookup of a signed-in caller who has a
\* repository saved, and the analysis answered 404
CoreLookupFatalWitness ==
  /\ analysis.asked
  /\ analysis.caller = "u1"
  /\ analysis.outcome["repo"] = Answered(404)
  /\ analysis.reply.status = 404
  /\ repositories # {}

\* the last quiz generation got as far as an answer of the provider
ProviderAnswered == generation.asked /\ generation.provider.kind = "text"
\* the text of the provider holds a JSON array, and every element of it is
\* a question
ParsesAsQuestions(text) ==
  /\ JsonMatch(text) # None
  /\ JsonParse(The(JsonMatch(text))) # None
  /\ LET qs == The(JsonParse(The(JsonMatch(text))))
     IN  \A i \in 1..Len(qs) : qs[i] = "q"

\* C24: a provider text that holds no JSON array, or whose bracketed part is
\* not valid JSON, is answered with the generation-failed error, and 200 is
\* answered only for a text that parsed as a list of questions.
GenerationContract ==
  ProviderAnswered =>
    /\ (JsonMatch(generation.provider.text) = None
          \/ JsonParse(The(JsonMatch(generation.provider.text))) = None)
        => (generation.reply.status = 500 /\ generation.reply.error # None)
    /\ generation.reply.status = 200
        => ParsesAsQuestions(generation.provider.text)

\* C25: a POST or PUT whose body is not JSON, and a POST that lacks a
\* required member, is answered 400 and stores nothing.
MalformedInputRejected ==
  /\ (resp.method \in {"POST", "PUT"} /\ resp.caller \in Users /\ ~resp.json)
     => resp.status = 400
  /\ route = "lesson-progress" =>
       \A b \in Plain(LessonProgressBodies) :
         (b.lessonId = None \/ b.status = None)
         => LET r == LessonProgressPOST("u1", b)
            IN  r.status = 400 /\ r.tbl = lessonProgress

\* C26: every answer with an error status has a body with a code member.
ErrorBodiesCarryCode ==
  (resp.method # "none" /\ resp.status >= 400) => resp.code # None

\* C27: every accepted submission adds one row to quiz_attempts, and the
\* answer, the correctness flag and the time of a stored attempt are the
\* same after every operation.
AttemptsImmutable ==
  [][ /\ (resp'.method = "POST" /\ resp'.status = 201 /\ route = "quiz-attempts")
          => Cardinality(quizAttempts') = Cardinality(quizAttempts) + 1
      /\ \A a \in quizAttempts, b \in quizAttempts' :
            a.id = b.id => /\ b.userAnswer = a.userAnswer
                           /\ b.isCorrect = a.isCorrect
                           /\ b.attemptedAt = a.attemptedAt ]_vars

\* from table old to table new, by a request of caller: a row that is new
\* belongs to caller, and a row that stays has the owner it had
OwnershipKept(old, new, caller) ==
  /\ \A b \in new : (\A a \in old : a.id # b.id) => b.userId = caller
  /\ \A a \in old, b \in new : a.id = b.id => b.userId = a.userId

\* C28: every row of a user-owned table is stored with the userId of the
\* caller that created it, and no operation changes the userId of a row.
OwnershipFixed ==
  [][ /\ OwnershipKept(lessonProgress, lessonProgress', resp'.caller)
      /\ OwnershipKept(quizAttempts, quizAttempts', resp'.caller)
      /\ OwnershipKept(repositories, repositories', resp'.caller)
      /\ OwnershipKept(userAchievements, userAchievements', resp'.caller)
      /\ OwnershipKept(userProgress, userProgress', resp'.caller) ]_vars

\* a caller has updated a row that another request of theirs created, while
\* a row of the other user is stored in the same table
OwnershipWitness ==
  /\ resp.method = "PUT" /\ resp.status = 200
  /\ \A r \in resp.rows : r.userId = resp.caller
  /\ \E r \in RouteTable : r.userId # resp.caller

\* the last request was a list GET on a user-owned route (a GET with an
\* ?id= that is no number is a refused single-row GET)
ListAsked ==
  resp.method = "GET" /\ resp.id = NaN /\ resp.code # Some("INVALID_ID")
  /\ resp.caller \in Users /\ route \in UserRoutes

NoOrphanFromRace ==
  /\ \A l \in lessons : \E p \in learningPaths : p.id = l.learningPathId
  /\ \A q \in quizzes : \E l \in lessons : l.id = q.lessonId
  /\ (resp.method = "POST" /\ resp.status = 201) =>
       \A r \in resp.rows :
         /\ "learningPathId" \in DOMAIN r
              => \E p \in learningPaths : p.id = r.learningPathId
         /\ "lessonId" \in DOMAIN r => \E l \in lessons : l.id = r.lessonId

\* a POST that had found its parent was answered 500 by its insert: the
\* parent had been deleted in between
RaceWitness ==
  /\ resp.method = "POST" /\ resp.caller = "u1" /\ resp.json
  /\ resp.status = 500
  /\ learningPaths = {} \/ Cardinality(lessons) < 2
====
